---- MODULE Spec2Model ----
(***************************************************************************)
(* Model of the record search / sort / limit helpers of eta/core/cli.py    *)
(* (_filter_records and the query parser it drives), and of the directory  *)
(* upload / download commands with the transfer engine they call.          *)
(*                                                                         *)
(* Text is modelled as a sequence of one-character strings, so that the    *)
(* regular-expression splitting, escaping and field-name normalisation of  *)
(* the code act on characters exactly as the code does.                    *)
(***************************************************************************)
EXTENDS Integers, Sequences, FiniteSets, TLC

VARIABLES
    pc,          \* position of the call: "call" before it ran, "done" after
    field_map,   \* the registry passed to the call: "s3", "gcs" or "gdrive"
    records,     \* the records argument (the listing)
    search_str,  \* the search_str argument (<< >> when not given)
    sort_by,     \* the sort_by argument (<< >> when not given)
    ascending,   \* the ascending argument
    limit,       \* the limit argument
    tz,          \* UTC offset, in hours, of the zone get_localzone() returns
    out,         \* what the call produced: [err |-> ..., records |-> ...]
    parsed,      \* the clauses of search_str as the parser split them
    trace,       \* how far the call got: predicate evaluations made, the clause
                 \* at which it raised, the arguments of the error message
    args,        \* the parsed command line of a directory command
    local_files, \* the local directory: relative path -> content
    cloud_files, \* the remote folder: relative path -> content
    before,      \* both sides as they were when the command started
    phase,       \* "idle", "planning", "executing", "done" or "failed"
    call,        \* the storage client call the command made
    plan,        \* the transfer plan: a sequence of [path, action]
    cursor,      \* the place in the plan of the next item
    attempts,    \* the transfers attempted so far, in order: [path, ok]
    failures,    \* the failures recorded so far: [path, error]
    raised,      \* the error the client call raised to the command, if any
    runs,        \* how many times the directory command has been started
    cloud_folder, \* whether the remote folder itself exists
    confidence_threshold, \* parameters.confidence_threshold of the module
    attrs,       \* the attributes classifier.predict() returned for an object
    filtered     \* what _classify_image returned: [done |-> ..., attrs |-> ...]

\* the state of a list command
queryVars ==
    <<pc, field_map, records, search_str, sort_by, ascending, limit, tz, out, parsed,
      trace>>

\* the state of a directory command
syncVars ==
    <<args, local_files, cloud_files, before, phase, call, plan, cursor, attempts,
      failures, raised, runs, cloud_folder>>

\* the state of the apply_classifier_to_objects module
classifyVars == <<confidence_threshold, attrs, filtered>>

vars == <<queryVars, syncVars, classifyVars>>

\* ------------------------------------------------------------------ bounds

\* longest search string enumerated character by character
MaxLen == 4
\* longest listing passed to _filter_records
MaxRecs == 3
\* most clauses in a search string built from whole clauses
MaxClauses == 2

\* ------------------------------------------------------------- characters

BSL == "\\"

\* the characters the parser treats specially
ClauseSep == {","}
DelimChars == {":", "=", "<", ">"}
EscapableChars == {",", ":", "=", "<", ">"}

\* the characters of the model in code-point order, as str comparison orders them
Ascii ==
    <<" ", "+", ",", "-", ".", "/",
      "0", "1", "2", "3", "4", "5", "6", "7", "8", "9",
      ":", "<", "=", ">",
      "A", "B", "C", "D", "E", "F", "G", "H", "I", "J", "K", "L", "M",
      "N", "O", "P", "Q", "R", "S", "T", "U", "V", "W", "X", "Y", "Z",
      "\\", "_",
      "a", "b", "c", "d", "e", "f", "g", "h", "i", "j", "k", "l", "m",
      "n", "o", "p", "q", "r", "s", "t", "u", "v", "w", "x", "y", "z">>

CharCode(c) == CHOOSE i \in 1..Len(Ascii) : Ascii[i] = c

UpperLetters == {Ascii[i] : i \in CharCode("A")..CharCode("Z")}

\* str.lower() on one character
Lower(c) ==
    IF c \in UpperLetters
    THEN Ascii[CharCode(c) - CharCode("A") + CharCode("a")]
    ELSE c

\* str.lower()
LowerStr(s) == [i \in 1..Len(s) |-> Lower(s[i])]

\* str.strip(): drops leading and trailing blanks
RECURSIVE LStrip(_)
LStrip(s) == IF s # << >> /\ Head(s) = " " THEN LStrip(Tail(s)) ELSE s

RECURSIVE RStrip(_)
RStrip(s) ==
    IF s # << >> /\ s[Len(s)] = " " THEN RStrip(SubSeq(s, 1, Len(s) - 1)) ELSE s

Strip(s) == RStrip(LStrip(s))

\* str.replace(" ", "_")
ReplaceSpaces(s) == [i \in 1..Len(s) |-> IF s[i] = " " THEN "_" ELSE s[i]]

\* `usr in rec` on strings
IsSubstring_NonEmptyOnly(usr, rec) ==
    /\ usr # << >>
    /\ \E i \in 0..(Len(rec) - Len(usr)) : SubSeq(rec, i + 1, i + Len(usr)) = usr

IsSubstring(usr, rec) ==
    \E i \in 0..(Len(rec) - Len(usr)) : SubSeq(rec, i + 1, i + Len(usr)) = usr

\* ----------------------------------------------------------------- values

Digit == {"0", "1", "2", "3", "4", "5", "6", "7", "8", "9"}

DigitVal(c) == CharCode(c) - CharCode("0")

IsDigits(s) == s # << >> /\ \A i \in 1..Len(s) : s[i] \in Digit

RECURSIVE DigitsToInt(_)
DigitsToInt(s) ==
    IF s = << >> THEN 0
    ELSE 10 * DigitsToInt(SubSeq(s, 1, Len(s) - 1)) + DigitVal(s[Len(s)])

RECURSIVE IntToDigits(_)
IntToDigits(n) ==
    IF n < 10 THEN <<Ascii[CharCode("0") + n]>>
    ELSE IntToDigits(n \div 10) \o <<Ascii[CharCode("0") + (n % 10)]>>

\* str < str: lexicographic by code point
StrLess(a, b) ==
    \E i \in 1..Len(b) :
        /\ i <= Len(a) + 1
        /\ SubSeq(a, 1, i - 1) = SubSeq(b, 1, i - 1)
        /\ (i = Len(a) + 1 \/ CharCode(a[i]) < CharCode(b[i]))

\* Time is counted in whole hours.  A timezone-aware datetime is
\* [utc |-> the instant, off |-> the UTC offset of its zone].
Instant(dt) == dt.utc

\* dateutil.parser.isoparse, on the literals of the model: hour digits,
\* optionally followed by Z or by a signed UTC offset (5, 5Z, 5+1, 5-5).
\* [ok, aware, wall, off]: a literal without offset is a naive datetime.
ParseIso(s) ==
    LET bad == [ok |-> FALSE, aware |-> FALSE, wall |-> 0, off |-> 0]
        signs == {i \in 1..Len(s) : s[i] \in {"+", "-"}}
    IN  IF IsDigits(s)
        THEN [ok |-> TRUE, aware |-> FALSE, wall |-> DigitsToInt(s), off |-> 0]
        ELSE IF Len(s) >= 2 /\ s[Len(s)] = "Z" /\ IsDigits(SubSeq(s, 1, Len(s) - 1))
        THEN [ok |-> TRUE, aware |-> TRUE,
              wall |-> DigitsToInt(SubSeq(s, 1, Len(s) - 1)), off |-> 0]
        ELSE IF Cardinality(signs) = 1
        THEN LET i == CHOOSE k \in signs : TRUE
                 w == SubSeq(s, 1, i - 1)
                 o == SubSeq(s, i + 1, Len(s))
             IN  IF IsDigits(w) /\ IsDigits(o)
                 THEN [ok |-> TRUE, aware |-> TRUE, wall |-> DigitsToInt(w),
                       off |-> IF s[i] = "+" THEN DigitsToInt(o) ELSE 0 - DigitsToInt(o)]
                 ELSE bad
        ELSE bad

\* mutant: a search string without offset is taken to be UTC
ParseDatetimeStr_NaiveIsUTC(s, zone) ==
    LET p == ParseIso(s)
    IN  [utc |-> p.wall - p.off, off |-> zone]

\* _parse_datetime on a search string: isoparse, then astimezone(local zone);
\* astimezone takes a naive datetime to be local time
ParseDatetimeStr(s, zone) ==
    LET p == ParseIso(s)
    IN  [utc |-> IF p.aware THEN p.wall - p.off ELSE p.wall - zone, off |-> zone]

\* _parse_datetime on a record's datetime: astimezone(local zone)
ParseDatetime(dt, zone) == [utc |-> dt.utc, off |-> zone]

ZoneName(zone) ==
    CASE zone = 0 -> <<"U", "T", "C">>
      [] zone = 1 -> <<"C", "E", "T">>
      [] zone = 0 - 5 -> <<"E", "S", "T">>
      [] OTHER -> <<"L", "M", "T">>

\* _render_datetime: the local wall-clock time and the zone's abbreviation
RenderDatetime(dt, zone) ==
    LET l == ParseDatetime(dt, zone)
    IN  IntToDigits(l.utc + l.off) \o <<" ">> \o ZoneName(zone)

\* etau.to_human_bytes_str: one decimal and the largest binary unit that
\* keeps the number below 1024 ("5.0B", "1.5KB", "10.0MB")
ToHumanBytesStr(n) ==
    LET unit == IF n < 1024 THEN 1 ELSE IF n < 1024 * 1024 THEN 1024 ELSE 1024 * 1024
        name == IF n < 1024 THEN <<"B">>
                ELSE IF n < 1024 * 1024 THEN <<"K", "B">> ELSE <<"M", "B">>
    IN  IntToDigits(n \div unit) \o <<".">>
          \o IntToDigits(((n % unit) * 10) \div unit) \o name

\* _render_bytes
RenderBytes(size) == IF size < 0 THEN <<"-">> ELSE ToHumanBytesStr(size)

\* etau.from_human_bytes_str: a number with at most one decimal, then an
\* optional unit B, KB or MB in either case; -1 stands for the parse error
FromHumanBytesStr(s) ==
    LET l == LowerStr(s)
        n == Len(l)
        ulen == IF n >= 2 /\ SubSeq(l, n - 1, n) \in {<<"k", "b">>, <<"m", "b">>} THEN 2
                ELSE IF n >= 1 /\ l[n] = "b" THEN 1 ELSE 0
        unit == IF ulen = 2 THEN (IF l[n - 1] = "k" THEN 1024 ELSE 1024 * 1024) ELSE 1
        num == SubSeq(l, 1, n - ulen)
        m == Len(num)
    IN  IF IsDigits(num) THEN DigitsToInt(num) * unit
        ELSE IF m >= 3 /\ num[m - 1] = "." /\ IsDigits(SubSeq(num, 1, m - 2))
                /\ num[m] \in Digit
        THEN (((DigitsToInt(SubSeq(num, 1, m - 2)) * 10) + DigitVal(num[m])) * unit) \div 10
        ELSE 0 - 1

\* ---------------------------------------------------------------- parsing

\* mutant: the pattern without its lookbehind, an escaped character splits
CanStartDelimiter_NoLookbehind(s, chars, i) == s[i] \in chars

\* the regular expression (?<!\\)([chars]+) can match starting at position i
CanStartDelimiter(s, chars, i) ==
    /\ s[i] \in chars
    /\ (i = 1 \/ s[i - 1] # BSL)

\* mutant: the pattern [chars] without the +, one character per delimiter
RunEnd_SingleChar(s, chars, i) == i

\* last position of the greedy run [chars]+ that starts at i
RECURSIVE RunEnd(_, _, _)
RunEnd(s, chars, i) ==
    IF i < Len(s) /\ s[i + 1] \in chars THEN RunEnd(s, chars, i + 1) ELSE i

\* re.split(pattern, s, max_splits) with the delimiter group kept: the
\* chunks alternate text, delimiter, text, ...
RECURSIVE ReSplit(_, _, _, _, _, _)
ReSplit(s, chars, max_splits, i, start, done) ==
    IF i > Len(s) THEN <<SubSeq(s, start, Len(s))>>
    ELSE IF CanStartDelimiter(s, chars, i) /\ (max_splits = 0 \/ done < max_splits)
         THEN LET j == RunEnd(s, chars, i)
              IN  <<SubSeq(s, start, i - 1), SubSeq(s, i, j)>>
                    \o ReSplit(s, chars, max_splits, j + 1, j + 1, done + 1)
         ELSE ReSplit(s, chars, max_splits, i + 1, start, done)

\* chunks[::2]
EvenChunks(chunks) == [k \in 1..((Len(chunks) + 1) \div 2) |-> chunks[2 * k - 1]]

\* _split_on_chars(s, chars, max_splits, keep_delimiters)
SplitOnChars(s, chars, max_splits, keep_delimiters) ==
    LET chunks == ReSplit(s, chars, max_splits, 1, 1, 0)
    IN  IF keep_delimiters THEN chunks ELSE EvenChunks(chunks)

\* _remove_escapes(s, chars): re.sub of backslash + char by the char
RECURSIVE RemoveEscapes(_, _)
RemoveEscapes(s, chars) ==
    IF s = << >> THEN << >>
    ELSE IF Head(s) = BSL /\ Len(s) >= 2 /\ s[2] \in chars
         THEN <<s[2]>> \o RemoveEscapes(SubSeq(s, 3, Len(s)), chars)
         ELSE <<Head(s)>> \o RemoveEscapes(Tail(s), chars)

\* the value literal a predicate is built with
CleanValue(value) == Strip(RemoveEscapes(value, EscapableChars))

\* key.lower().strip().replace(" ", "_")
NormalizeKey(key) == ReplaceSpaces(Strip(LowerStr(key)))

\* --------------------------------------------------------------- registry

\* field names and record keys
K_bucket == <<"b", "u", "c", "k", "e", "t">>
K_id == <<"i", "d">>
K_name == <<"n", "a", "m", "e">>
K_object_name == <<"o", "b", "j", "e", "c", "t", "_", "n", "a", "m", "e">>
K_size == <<"s", "i", "z", "e">>
K_type == <<"t", "y", "p", "e">>
K_mime_type == <<"m", "i", "m", "e", "_", "t", "y", "p", "e">>
K_last_modified == <<"l", "a", "s", "t", "_", "m", "o", "d", "i", "f", "i", "e", "d">>
\* a key of the records that no searcher is bound to
K_etag == <<"e", "t", "a", "g">>

\* StringSearcher(name), BytesSearcher(name), DatetimeSearcher(name)
StringSearcher(name) == [kind |-> "String", name |-> name]
BytesSearcher(name) == [kind |-> "Bytes", name |-> name]
DatetimeSearcher(name) == [kind |-> "Datetime", name |-> name]

S3_SEARCH_FIELDS_MAP ==
    (K_bucket :> StringSearcher(K_bucket))
      @@ (K_name :> StringSearcher(K_object_name))
      @@ (K_size :> BytesSearcher(K_size))
      @@ (K_type :> StringSearcher(K_mime_type))
      @@ (K_last_modified :> DatetimeSearcher(K_last_modified))

GCS_SEARCH_FIELDS_MAP ==
    (K_bucket :> StringSearcher(K_bucket))
      @@ (K_name :> StringSearcher(K_object_name))
      @@ (K_size :> BytesSearcher(K_size))
      @@ (K_type :> StringSearcher(K_mime_type))
      @@ (K_last_modified :> DatetimeSearcher(K_last_modified))

GOOGLE_DRIVE_SEARCH_FIELDS_MAP ==
    (K_id :> StringSearcher(K_id))
      @@ (K_name :> StringSearcher(K_name))
      @@ (K_size :> BytesSearcher(K_size))
      @@ (K_type :> StringSearcher(K_mime_type))
      @@ (K_last_modified :> DatetimeSearcher(K_last_modified))

\* the registry each list command passes to _filter_records
FieldMap(fm) ==
    CASE fm = "s3" -> S3_SEARCH_FIELDS_MAP
      [] fm = "gcs" -> GCS_SEARCH_FIELDS_MAP
      [] fm = "gdrive" -> GOOGLE_DRIVE_SEARCH_FIELDS_MAP

\* -------------------------------------------------------------- searchers

\* the relations of the operator module, by name, on two values of a kind
ValueLess(kind, a, b) ==
    CASE kind = "String" -> StrLess(a, b)
      [] kind = "Bytes" -> a < b
      [] kind = "Datetime" -> Instant(a) < Instant(b)

ValueEq(kind, a, b) ==
    IF kind = "Datetime" THEN Instant(a) = Instant(b) ELSE a = b

ApplyOp(op, kind, a, b) ==
    CASE op = "eq" -> ValueEq(kind, a, b)
      [] op = "gt" -> ValueLess(kind, b, a)
      [] op = "ge" -> ~ValueLess(kind, a, b)
      [] op = "lt" -> ValueLess(kind, a, b)
      [] op = "le" -> ~ValueLess(kind, b, a)

\* Searcher.contains(usr, rec) of the three searcher classes
Contains(searcher, usr, rec, zone) ==
    CASE searcher.kind = "String" -> IsSubstring(usr, rec)
      [] searcher.kind = "Bytes" -> IsSubstring(usr, RenderBytes(rec))
      [] searcher.kind = "Datetime" -> IsSubstring(usr, RenderDatetime(rec, zone))

\* Searcher.compare(usr, rec, op) raises: the search string does not parse
CompareRaises(searcher, usr) ==
    CASE searcher.kind = "String" -> FALSE
      [] searcher.kind = "Bytes" -> FromHumanBytesStr(usr) < 0
      [] searcher.kind = "Datetime" -> ~ParseIso(usr).ok

\* Searcher.compare(usr, rec, op) of the three searcher classes
Compare(searcher, usr, rec, op, zone) ==
    CASE searcher.kind = "String" -> ApplyOp(op, "String", usr, rec)
      [] searcher.kind = "Bytes" -> ApplyOp(op, "Bytes", FromHumanBytesStr(usr), rec)
      [] searcher.kind = "Datetime" ->
            ApplyOp(op, "Datetime", ParseDatetimeStr(usr, zone), ParseDatetime(rec, zone))

\* mutant: the table without the inversion, < dispatching operator.lt
SearchComparisonOperator_NotInverted(delimiter) ==
    CASE delimiter = <<"=", "=">> -> "eq"
      [] delimiter = <<"<">> -> "lt"
      [] delimiter = <<"<", "=">> -> "le"
      [] delimiter = <<">">> -> "gt"
      [] delimiter = <<">", "=">> -> "ge"
      [] OTHER -> "None"

\* _SEARCH_COMPARISON_OPERATORS.get(delimiter, None)
SearchComparisonOperator(delimiter) ==
    CASE delimiter = <<"=", "=">> -> "eq"
      [] delimiter = <<"<">> -> "gt"
      [] delimiter = <<"<", "=">> -> "ge"
      [] delimiter = <<">">> -> "lt"
      [] delimiter = <<">", "=">> -> "le"
      [] OTHER -> "None"

\* ------------------------------------------------------- match functions

NoSearcher == [kind |-> "None", name |-> << >>]

\* a predicate the parser yields, or the error it raises at that clause
MatchFcn(type, searcher, value, op, err) ==
    [type |-> type, searcher |-> searcher, value |-> value, op |-> op, err |-> err]

\* _make_any_match_fcn(value, field_map)
MakeAnyMatchFcn(value, fmap) ==
    MatchFcn("any", NoSearcher, CleanValue(value), "None", "None")

\* mutant: the delimiter is looked up before the key
MakeMatchFcn_DelimiterFirst(key, value, delimiter, fmap) ==
    LET key_normalized == NormalizeKey(key)
        v == CleanValue(value)
    IN  IF delimiter # <<":">> /\ SearchComparisonOperator(delimiter) = "None"
        THEN MatchFcn("raise", NoSearcher, v, "None", "KeyError: unsupported delimiter")
        ELSE IF key_normalized \notin DOMAIN fmap
        THEN MatchFcn("raise", NoSearcher, v, "None", "KeyError: unsupported key")
        ELSE IF delimiter = <<":">>
        THEN MatchFcn("contains", fmap[key_normalized], v, "None", "None")
        ELSE MatchFcn("compare", fmap[key_normalized], v,
                      SearchComparisonOperator(delimiter), "None")

\* mutant: a delimiter that is no comparison operator is read as contains
MakeMatchFcn_DefaultsToContains(key, value, delimiter, fmap) ==
    LET key_normalized == NormalizeKey(key)
        v == CleanValue(value)
    IN  IF key_normalized \notin DOMAIN fmap
        THEN MatchFcn("raise", NoSearcher, v, "None", "KeyError: unsupported key")
        ELSE IF delimiter = <<":">> \/ SearchComparisonOperator(delimiter) = "None"
        THEN MatchFcn("contains", fmap[key_normalized], v, "None", "None")
        ELSE MatchFcn("compare", fmap[key_normalized], v,
                      SearchComparisonOperator(delimiter), "None")

\* mutant: on a bytes or datetime field : compares for equality
MakeMatchFcn_ContainsCompares(key, value, delimiter, fmap) ==
    LET key_normalized == NormalizeKey(key)
        v == CleanValue(value)
    IN  IF key_normalized \notin DOMAIN fmap
        THEN MatchFcn("raise", NoSearcher, v, "None", "KeyError: unsupported key")
        ELSE IF delimiter = <<":">> /\ fmap[key_normalized].kind = "String"
        THEN MatchFcn("contains", fmap[key_normalized], v, "None", "None")
        ELSE IF delimiter = <<":">>
        THEN MatchFcn("compare", fmap[key_normalized], v, "eq", "None")
        ELSE IF SearchComparisonOperator(delimiter) = "None"
        THEN MatchFcn("raise", NoSearcher, v, "None", "KeyError: unsupported delimiter")
        ELSE MatchFcn("compare", fmap[key_normalized], v,
                      SearchComparisonOperator(delimiter), "None")

\* _make_match_fcn(key, value, delimiter, field_map, search_str)
MakeMatchFcn(key, value, delimiter, fmap) ==
    LET key_normalized == NormalizeKey(key)
        v == CleanValue(value)
    IN  IF key_normalized \notin DOMAIN fmap
        THEN MatchFcn("raise", NoSearcher, v, "None", "KeyError: unsupported key")
        ELSE IF delimiter = <<":">>
        THEN MatchFcn("contains", fmap[key_normalized], v, "None", "None")
        ELSE IF SearchComparisonOperator(delimiter) = "None"
        THEN MatchFcn("raise", NoSearcher, v, "None", "KeyError: unsupported delimiter")
        ELSE MatchFcn("compare", fmap[key_normalized], v,
                      SearchComparisonOperator(delimiter), "None")

\* the body of the loop of _parse_search_str, for one clause s
ParseClause(s, fmap) ==
    LET chunks == SplitOnChars(s, DelimChars, 1, TRUE)
    IN  IF Len(chunks) = 1
        THEN MakeAnyMatchFcn(chunks[1], fmap)
        ELSE MakeMatchFcn(chunks[1], chunks[3], chunks[2], fmap)

\* _parse_search_str(search_str, field_map): the predicates in clause order
ParseSearchStr(s, fmap) ==
    LET clauses == SplitOnChars(s, ClauseSep, 0, FALSE)
    IN  [k \in 1..Len(clauses) |-> ParseClause(clauses[k], fmap)]

\* mutant: the searchers keyed by field name instead of by record key
SearcherMap_ByFieldName(fmap) == fmap

\* searcher_map of _make_any_match_fcn: searchers by the record key they read
SearcherMap(fmap) ==
    [name \in {fmap[k].name : k \in DOMAIN fmap} |->
        CHOOSE s \in {fmap[k] : k \in DOMAIN fmap} : s.name = name]

\* evaluating the predicate on the record raises
MatchRaises(fcn, fmap, record) ==
    CASE fcn.type = "compare" ->
            fcn.searcher.name \notin DOMAIN record \/ CompareRaises(fcn.searcher, fcn.value)
      [] fcn.type = "contains" -> fcn.searcher.name \notin DOMAIN record
      [] OTHER -> FALSE

\* match_fcn(record): _any_match_fcn and the two lambdas of _make_match_fcn
Match(fcn, fmap, record, zone) ==
    CASE fcn.type = "any" ->
            \E name \in DOMAIN record :
                /\ name \in DOMAIN SearcherMap(fmap)
                /\ Contains(SearcherMap(fmap)[name], fcn.value, record[name], zone)
      [] fcn.type = "contains" ->
            Contains(fcn.searcher, fcn.value, record[fcn.searcher.name], zone)
      [] fcn.type = "compare" ->
            Compare(fcn.searcher, fcn.value, record[fcn.searcher.name], fcn.op, zone)

\* -------------------------------------------------------- _filter_records

\* what a call produces: the records returned, or the error raised
Returned(recs) == [err |-> "None", records |-> recs]
Raised(err) == [err |-> err, records |-> << >>]

\* mutant: only the first predicate filters the listing
ApplyMatchFcns_FirstOnly(fcns, fmap, recs, zone) ==
    IF fcns = << >> THEN Returned(recs)
    ELSE LET f == Head(fcns)
         IN  IF f.type = "raise" THEN Raised(f.err)
             ELSE IF \E i \in 1..Len(recs) : MatchRaises(f, fmap, recs[i])
             THEN Raised("ValueError: unparsable value")
             ELSE Returned(SelectSeq(recs, LAMBDA r : Match(f, fmap, r, zone)))

\* the loop over the predicates of _parse_search_str: each predicate in
\* turn filters what the previous ones kept; the generator raises when it
\* reaches a bad clause, a predicate raises when it is evaluated
RECURSIVE ApplyMatchFcns(_, _, _, _)
ApplyMatchFcns(fcns, fmap, recs, zone) ==
    IF fcns = << >> THEN Returned(recs)
    ELSE LET f == Head(fcns)
         IN  IF f.type = "raise" THEN Raised(f.err)
             ELSE IF \E i \in 1..Len(recs) : MatchRaises(f, fmap, recs[i])
             THEN Raised(IF CompareRaises(f.searcher, f.value)
                         THEN "ValueError: unparsable value"
                         ELSE "KeyError: record key")
             ELSE ApplyMatchFcns(Tail(fcns), fmap,
                                 SelectSeq(recs, LAMBDA r : Match(f, fmap, r, zone)), zone)

\* the kind of value a record holds under a key
AttrKind(name) ==
    CASE name = K_size -> "Bytes"
      [] name = K_last_modified -> "Datetime"
      [] OTHER -> "String"

\* mutant: descending by "not less", an equal record overtakes
SortsBefore_Unstable(x, y, key, reverse) ==
    IF reverse
    THEN ~ValueLess(AttrKind(key), x[key], y[key])
    ELSE ValueLess(AttrKind(key), x[key], y[key])

\* x sorts strictly before y
SortsBefore(x, y, key, reverse) ==
    IF reverse
    THEN ValueLess(AttrKind(key), y[key], x[key])
    ELSE ValueLess(AttrKind(key), x[key], y[key])

RECURSIVE InsertSorted(_, _, _, _)
InsertSorted(x, l, key, reverse) ==
    IF l = << >> THEN <<x>>
    ELSE IF SortsBefore(x, Head(l), key, reverse) THEN <<x>> \o l
         ELSE <<Head(l)>> \o InsertSorted(x, Tail(l), key, reverse)

\* sorted(records, key=lambda r: r[key], reverse=reverse): a stable sort,
\* also when reversed
RECURSIVE Sorted(_, _, _)
Sorted(recs, key, reverse) ==
    IF recs = << >> THEN << >>
    ELSE InsertSorted(recs[Len(recs)],
                      Sorted(SubSeq(recs, 1, Len(recs) - 1), key, reverse),
                      key, reverse)

\* list(reversed(records))
Reversed(recs) == [i \in 1..Len(recs) |-> recs[Len(recs) + 1 - i]]

\* mutant: sort_by normalised without lower()
NormalizeSortBy_NoLower(s) == ReplaceSpaces(Strip(s))

\* sort_by.lower().strip().replace(" ", "_")
NormalizeSortBy(s) == ReplaceSpaces(Strip(LowerStr(s)))

\* mutant: without sort_by the listing order is kept whatever ascending is
SortRecords_NoDefaultReverse(recs, sortby, asc) ==
    IF sortby # << >>
    THEN IF \E i \in 1..Len(recs) : NormalizeSortBy(sortby) \notin DOMAIN recs[i]
         THEN Raised("KeyError: invalid sort by field")
         ELSE Returned(Sorted(recs, NormalizeSortBy(sortby), ~asc))
    ELSE Returned(recs)

\* the sorting step of _filter_records
SortRecords(recs, sortby, asc) ==
    LET reverse == ~asc
        sort_by_normalized == NormalizeSortBy(sortby)
    IN  IF sortby # << >>
        THEN IF \E i \in 1..Len(recs) : sort_by_normalized \notin DOMAIN recs[i]
             THEN Raised("KeyError: invalid sort by field")
             ELSE Returned(Sorted(recs, sort_by_normalized, reverse))
        ELSE IF reverse THEN Returned(Reversed(recs)) ELSE Returned(recs)

\* mutant: records[:limit] whatever the sign of limit
LimitRecords_AlwaysSlices(recs, lim) ==
    IF lim >= 0 THEN SubSeq(recs, 1, IF lim < Len(recs) THEN lim ELSE Len(recs))
    ELSE SubSeq(recs, 1, IF Len(recs) + lim > 0 THEN Len(recs) + lim ELSE 0)

\* mutant: a limit beyond the end is filled by starting over
LimitRecords_FillsToLimit(recs, lim) ==
    IF lim > 0 /\ recs # << >>
    THEN [i \in 1..lim |-> recs[((i - 1) % Len(recs)) + 1]]
    ELSE recs

\* the limiting step of _filter_records: records[:limit]
LimitRecords(recs, lim) ==
    IF lim > 0 /\ lim < Len(recs) THEN SubSeq(recs, 1, lim) ELSE recs

\* the filtering step of _filter_records
SearchRecords(recs, search, fm, zone) ==
    IF search # << >>
    THEN ApplyMatchFcns(ParseSearchStr(search, FieldMap(fm)), FieldMap(fm), recs, zone)
    ELSE Returned(recs)

\* _filter_records(records, limit, search_str, sort_by, ascending, field_map)
FilterRecords(recs, lim, search, sortby, asc, fm, zone) ==
    LET searched == SearchRecords(recs, search, fm, zone)
    IN  IF searched.err # "None" THEN searched
        ELSE LET sorted == SortRecords(searched.records, sortby, asc)
             IN  IF sorted.err # "None" THEN sorted
                 ELSE Returned(LimitRecords(sorted.records, lim))

\* how the parser splits search_str: per clause, its text, its chunks and
\* the value literal its predicate is built with
ClauseSplits(search, fm) ==
    LET clauses == SplitOnChars(search, ClauseSep, 0, FALSE)
    IN  [k \in 1..Len(clauses) |->
            [clause |-> clauses[k],
             chunks |-> SplitOnChars(clauses[k], DelimChars, 1, TRUE),
             literal |-> ParseClause(clauses[k], FieldMap(fm)).value]]

\* the % arguments of an error message the call raises with
Message(kind, arguments) == [kind |-> kind, args |-> arguments]
NoMessage == Message("None", << >>)

\* the KeyError of _make_match_fcn(key, value, delimiter, field_map,
\* search_str), when it raises one
MakeMatchFcnError(key, delimiter, fmap, search) ==
    LET key_normalized == NormalizeKey(key)
    IN  IF key_normalized \notin DOMAIN fmap
        THEN Message("KeyError: unsupported key",
                     <<search, key, key_normalized, DOMAIN fmap>>)
        ELSE IF delimiter # <<":">> /\ SearchComparisonOperator(delimiter) = "None"
        THEN Message("KeyError: unsupported delimiter", <<search, delimiter>>)
        ELSE NoMessage

\* the error of the k-th clause of search_str, as _parse_search_str raises it
ClauseError(search, k, fmap) ==
    LET s == SplitOnChars(search, ClauseSep, 0, FALSE)[k]
        chunks == SplitOnChars(s, DelimChars, 1, TRUE)
    IN  IF Len(chunks) = 1 THEN NoMessage
        ELSE MakeMatchFcnError(chunks[1], chunks[2], fmap, search)

\* the KeyError _filter_records raises for a sort that failed
SortError(sortby, fmap) ==
    Message("KeyError: invalid sort by field",
            <<sortby, NormalizeSortBy(sortby), DOMAIN fmap>>)

\* the place of the first record on which the predicate raises
FirstRaising(f, fmap, recs) ==
    CHOOSE i \in 1..Len(recs) :
        /\ MatchRaises(f, fmap, recs[i])
        /\ \A j \in 1..(i - 1) : ~MatchRaises(f, fmap, recs[j])

\* the loop of _filter_records over the generator _parse_search_str, as it
\* runs: the k-th clause is parsed only when the predicates before it have
\* filtered the listing, and each predicate is called on the records in
\* order until one call raises.  n counts the calls made; records are those
\* kept so far.
RECURSIVE TraceMatchFcns(_, _, _, _, _, _)
TraceMatchFcns(fcns, fmap, recs, zone, k, n) ==
    IF k > Len(fcns) THEN [evals |-> n, clause |-> 0, records |-> recs]
    ELSE LET f == fcns[k]
         IN  IF f.type = "raise" THEN [evals |-> n, clause |-> k, records |-> recs]
             ELSE IF \E i \in 1..Len(recs) : MatchRaises(f, fmap, recs[i])
             THEN [evals |-> n + FirstRaising(f, fmap, recs), clause |-> k,
                   records |-> recs]
             ELSE TraceMatchFcns(fcns, fmap,
                                 SelectSeq(recs, LAMBDA r : Match(f, fmap, r, zone)),
                                 zone, k + 1, n + Len(recs))

\* _filter_records as it runs: the predicate calls made, the clause at which
\* the search raised (0 when it did not) and the message raised with
FilterRecordsTrace(recs, search, sortby, asc, fm, zone) ==
    LET fmap == FieldMap(fm)
        fcns == IF search # << >> THEN ParseSearchStr(search, fmap) ELSE << >>
        t == TraceMatchFcns(fcns, fmap, recs, zone, 1, 0)
    IN  IF t.clause # 0
        THEN [evals |-> t.evals, clause |-> t.clause,
              message |-> IF fcns[t.clause].type = "raise"
                          THEN ClauseError(search, t.clause, fmap)
                          ELSE NoMessage]
        ELSE [evals |-> t.evals, clause |-> 0,
              message |->
                  IF sortby # << >> /\ SortRecords(t.records, sortby, asc).err # "None"
                  THEN SortError(sortby, fmap)
                  ELSE NoMessage]

\* ---------------------------------------------------------------- actions

NoOut == [err |-> "pending", records |-> << >>]
NoTrace == [evals |-> 0, clause |-> 0, message |-> NoMessage]

\* no directory command is running
NoArgs == [command |-> "None"]
NoCall == [method |-> "None"]
NoError == [error |-> "None", path |-> ""]
\* the module is not running
NoClassify ==
    /\ confidence_threshold = 0 - 1
    /\ attrs = << >>
    /\ filtered = [done |-> FALSE, attrs |-> << >>]

NoSync ==
    /\ args = NoArgs
    /\ local_files = << >>
    /\ cloud_files = << >>
    /\ before = [local |-> << >>, cloud |-> << >>]
    /\ phase = "idle"
    /\ call = NoCall
    /\ plan = << >>
    /\ cursor = 0
    /\ attempts = << >>
    /\ failures = << >>
    /\ raised = NoError
    /\ runs = 0
    /\ cloud_folder = FALSE

\* a list command calls _filter_records on its listing
FilterRecordsCall ==
    /\ pc = "call"
    /\ pc' = "done"
    /\ out' = FilterRecords(records, limit, search_str, sort_by, ascending, field_map, tz)
    /\ parsed' = IF search_str # << >> THEN ClauseSplits(search_str, field_map) ELSE << >>
    /\ trace' = FilterRecordsTrace(records, search_str, sort_by, ascending, field_map, tz)
    /\ UNCHANGED <<field_map, records, search_str, sort_by, ascending, limit, tz>>
    /\ UNCHANGED syncVars
    /\ UNCHANGED classifyVars

Next == FilterRecordsCall

\* ----------------------------------------------------------------- inputs

\* all strings of at most n characters of the alphabet
RECURSIVE StringsUpTo(_, _)
StringsUpTo(alphabet, n) ==
    IF n = 0 THEN {<< >>}
    ELSE LET shorter == StringsUpTo(alphabet, n - 1)
         IN  shorter \cup {Append(s, c) : s \in shorter, c \in alphabet}

\* all listings of at most n records of the pool
RECURSIVE ListingsUpTo(_, _)
ListingsUpTo(pool, n) ==
    IF n = 0 THEN {<< >>}
    ELSE LET shorter == ListingsUpTo(pool, n - 1)
         IN  shorter \cup {Append(l, r) : l \in shorter, r \in pool}

S3Record(bucket, object_name, size, mime_type, last_modified, etag) ==
    (K_bucket :> bucket) @@ (K_object_name :> object_name) @@ (K_size :> size)
      @@ (K_mime_type :> mime_type) @@ (K_last_modified :> last_modified)
      @@ (K_etag :> etag)

GoogleDriveRecord(id, name, size, mime_type, last_modified, etag) ==
    (K_id :> id) @@ (K_name :> name) @@ (K_size :> size)
      @@ (K_mime_type :> mime_type) @@ (K_last_modified :> last_modified)
      @@ (K_etag :> etag)

S3Pool ==
    { S3Record(<<"b", "k">>, <<"a", "b">>, 10485760, <<"t", "x">>,
               [utc |-> 10, off |-> 0], <<"z">>),
      S3Record(<<"b", "k">>, <<"b">>, 26214400, <<"i", "m">>,
               [utc |-> 12, off |-> 0 - 5], <<"a", "b">>),
      S3Record(<<"c">>, <<"a", "b">>, 10485760, <<"i", "m">>,
               [utc |-> 10, off |-> 1], <<"5">>) }

GoogleDrivePool ==
    { GoogleDriveRecord(<<"x">>, <<"a", "b">>, 10485760, <<"t", "x">>,
                        [utc |-> 10, off |-> 0], <<"z">>),
      GoogleDriveRecord(<<"y">>, <<"b">>, 26214400, <<"i", "m">>,
                        [utc |-> 12, off |-> 0 - 5], <<"a", "b">>),
      GoogleDriveRecord(<<"z">>, <<"a", "b">>, 10485760, <<"i", "m">>,
                        [utc |-> 10, off |-> 1], <<"5">>) }

\* the records a list command of the registry can be handed
Pool(fm) == IF fm = "gdrive" THEN GoogleDrivePool ELSE S3Pool

Registries == {"s3", "gcs", "gdrive"}

\* local zones the process may run in
LocalZones == {0 - 5, 1}

\* -------------------------------------------------- parsing of any string

ParseAlphabet == {"a", BSL, ",", ":", "<", "=", ">"}

\* the parser on every short string over the special characters
InitParse ==
    /\ pc = "call"
    /\ field_map = "s3"
    /\ records = << >>
    /\ search_str \in StringsUpTo(ParseAlphabet, MaxLen)
    /\ sort_by = << >>
    /\ ascending = TRUE
    /\ limit = 0 - 1
    /\ tz = 0
    /\ out = NoOut
    /\ parsed = << >>
    /\ trace = NoTrace
    /\ NoSync
    /\ NoClassify

SpecParse == InitParse /\ [][Next]_vars

\* ------------------------------------------------------ claims on parsing

\* the six operators of the query language
Operators ==
    {<<":">>, <<"=", "=">>, <<"<">>, <<"<", "=">>, <<">">>, <<">", "=">>}

\* position i of s holds a character that no backslash precedes
Unescaped(s, i) == i = 1 \/ s[i - 1] # BSL

\* the operators that occur in s at position i
OperatorsAt(s, i) ==
    {o \in Operators : i + Len(o) - 1 <= Len(s) /\ SubSeq(s, i, i + Len(o) - 1) = o}

\* the positions of s where an unescaped operator occurs
OperatorPositions(s) ==
    {i \in 1..Len(s) : Unescaped(s, i) /\ OperatorsAt(s, i) # {}}

Min(S) == CHOOSE x \in S : \A y \in S : x <= y

\* the split of a clause at its first unescaped operator, the longer operator
\* preferred, everything after that operator being the value
SplitAtFirstOperator(s) ==
    IF OperatorPositions(s) = {} THEN <<s>>
    ELSE LET p == Min(OperatorPositions(s))
             o == CHOOSE x \in OperatorsAt(s, p) :
                      \A y \in OperatorsAt(s, p) : Len(y) <= Len(x)
         IN  <<SubSeq(s, 1, p - 1), o, SubSeq(s, p + Len(o), Len(s))>>

\* C4 as stated: a clause in which an operator occurs unescaped is split at
\* the first such operator, the longer operator preferred, and all text after
\* that one operator is the value.
C4_SplitsAtFirstOperator ==
    pc = "done" =>
        \A k \in 1..Len(parsed) :
            OperatorPositions(parsed[k].clause) # {} =>
                parsed[k].chunks = SplitAtFirstOperator(parsed[k].clause)

\* the positions of s that hold an unescaped operator character
DelimiterStarts(s) == {i \in 1..Len(s) : s[i] \in DelimChars /\ Unescaped(s, i)}

\* the split of a clause at the maximal run of operator characters that
\* starts at its first unescaped operator character
SplitAtDelimiterRun(s) ==
    IF DelimiterStarts(s) = {} THEN <<s>>
    ELSE LET p == Min(DelimiterStarts(s))
             q == CHOOSE j \in p..Len(s) :
                      /\ \A i \in p..j : s[i] \in DelimChars
                      /\ (j = Len(s) \/ s[j + 1] \notin DelimChars)
         IN  <<SubSeq(s, 1, p - 1), SubSeq(s, p, q), SubSeq(s, q + 1, Len(s))>>

\* C4, amended: the delimiter of a clause is the maximal run of operator
\* characters starting at the first unescaped one; the text before the run
\* is the field, all text after it the value; whenever that run is one of
\* the six operators, the split is the one at the first operator.
C4_SplitsAtDelimiterRun ==
    pc = "done" =>
        \A k \in 1..Len(parsed) :
            LET c == parsed[k].clause
                chunks == parsed[k].chunks
            IN  /\ chunks = SplitAtDelimiterRun(c)
                /\ (Len(chunks) = 3 /\ chunks[2] \in Operators
                      => chunks = SplitAtFirstOperator(c))

\* a clause split at <= whose value holds a further operator character
C4_Witness ==
    /\ pc = "done"
    /\ \E k \in 1..Len(parsed) :
          /\ Len(parsed[k].chunks) = 3
          /\ parsed[k].chunks[2] = <<"<", "=">>
          /\ \E i \in 1..Len(parsed[k].chunks[3]) : parsed[k].chunks[3][i] \in DelimChars

\* s without the backslashes that precede an escapable character
RECURSIVE WithoutEscapingBackslashes(_, _)
WithoutEscapingBackslashes(s, i) ==
    IF i > Len(s) THEN << >>
    ELSE IF s[i] = BSL /\ i < Len(s) /\ s[i + 1] \in EscapableChars
         THEN WithoutEscapingBackslashes(s, i + 1)
         ELSE <<s[i]>> \o WithoutEscapingBackslashes(s, i + 1)

\* every comma of s is preceded by a backslash
AllCommasEscaped(s) == \A i \in 1..Len(s) : s[i] = "," => ~Unescaped(s, i)

\* C5: an escaped , : = < > never splits the query into clauses nor a clause
\* into field, operator and value, and the value literal is the raw value
\* with exactly the one backslash before each such character removed.
C5_EscapedDelimitersRoundTrip ==
    pc = "done" /\ search_str # << >> =>
        /\ AllCommasEscaped(search_str) =>
              Len(parsed) = 1 /\ parsed[1].clause = search_str
        /\ \A k \in 1..Len(parsed) :
              LET c == parsed[k].clause
                  chunks == parsed[k].chunks
              IN  /\ k < Len(parsed) => (c = << >> \/ c[Len(c)] # BSL)
                  /\ Len(chunks) = 3 =>
                        (chunks[1] = << >> \/ chunks[1][Len(chunks[1])] # BSL)
                  /\ parsed[k].literal =
                        Strip(WithoutEscapingBackslashes(chunks[Len(chunks)], 1))

\* a query holding an escaped comma is one clause whose literal has the comma
C5_Witness ==
    /\ pc = "done"
    /\ \E i \in 2..Len(search_str) : search_str[i] = "," /\ search_str[i - 1] = BSL
    /\ Len(parsed) = 1
    /\ \E i \in 1..Len(parsed[1].literal) : parsed[1].literal[i] = ","
    /\ Len(parsed[1].literal) < Len(search_str)

\* ------------------------------------------------- one clause, one listing

\* the delimiters of the comparison operators, and of contains
ComparisonDelimiters == {<<"=", "=">>, <<"<">>, <<"<", "=">>, <<">">>, <<">", "=">>}
ContainsDelimiter == <<":">>

\* search strings tried on a field of each kind
SearchValues(kind) ==
    CASE kind = "String" -> {<<"a", "b">>, <<"b">>, <<"t", "x">>}
      [] kind = "Bytes" ->
            {<<"2", "0", "M", "B">>, <<"1", "0", "M", "B">>,
             <<"1", "0", "2", "4", "0", "k", "b">>}
      [] kind = "Datetime" -> {<<"1", "0", "Z">>, <<"1", "1">>, <<"7", "-", "5">>}

\* the clauses field operator value on the fields of a registry
TypedClauses(fm) ==
    {f \o d \o v : f \in DOMAIN FieldMap(fm),
                   d \in ComparisonDelimiters \cup {ContainsDelimiter},
                   v \in UNION {SearchValues(k) : k \in {"String", "Bytes", "Datetime"}}}

\* the clauses that are one bare literal
BareLiterals ==
    {<<"a", "b">>, <<"t", "x">>, <<"z">>, <<"1", "0", ".", "0", "M">>,
     <<"1", "1", " ", "C">>, <<" ", "b", "k">>, <<"5", " ", "E", "S", "T">>,
     <<"n", "o">>}

\* one clause against a listing left in its order
InitClause ==
    /\ pc = "call"
    /\ field_map \in Registries
    /\ records \in ListingsUpTo(Pool(field_map), MaxRecs)
    /\ search_str \in TypedClauses(field_map) \cup BareLiterals
    /\ sort_by = << >>
    /\ ascending = TRUE
    /\ limit = 0 - 1
    /\ tz \in LocalZones
    /\ out = NoOut
    /\ parsed = << >>
    /\ trace = NoTrace
    /\ NoSync
    /\ NoClassify

SpecClause == InitClause /\ [][Next]_vars

\* -------------------------------------------------- claims on one clause

AllSearchValues == UNION {SearchValues(k) : k \in {"String", "Bytes", "Datetime"}}

\* the search string of a comparison parses as a value of the kind
Parsable(kind, v) ==
    CASE kind = "String" -> TRUE
      [] kind = "Bytes" -> FromHumanBytesStr(v) >= 0
      [] kind = "Datetime" -> ParseIso(v).ok

\* the value a search string stands for
UserValue(kind, v, zone) ==
    CASE kind = "String" -> v
      [] kind = "Bytes" -> FromHumanBytesStr(v)
      [] kind = "Datetime" -> ParseDatetimeStr(v, zone)

\* the value of a registry field in a record
FieldValue(fm, f, r) == r[FieldMap(fm)[f].name]

\* "field d value", read as written: x is the field's value, y the value
ReadsAs(d, kind, x, y) ==
    CASE d = <<"<">> -> ValueLess(kind, x, y)
      [] d = <<"<", "=">> -> ValueLess(kind, x, y) \/ ValueEq(kind, x, y)
      [] d = <<">">> -> ValueLess(kind, y, x)
      [] d = <<">", "=">> -> ValueLess(kind, y, x) \/ ValueEq(kind, x, y)
      [] d = <<"=", "=">> -> ValueEq(kind, x, y)

\* the records of the listing that satisfy p, in listing order
Kept(p(_)) == Returned(SelectSeq(records, p))

\* C1: a clause field<value keeps the records whose field value is strictly
\* less than the value, <= less or equal, > strictly greater, >= greater or
\* equal, == equal, for every field of the registry.
C1_ClauseReadsFieldOpValue ==
    pc = "done" =>
        \A f \in DOMAIN FieldMap(field_map), d \in ComparisonDelimiters,
           v \in AllSearchValues :
            LET kind == FieldMap(field_map)[f].kind
            IN  search_str = f \o d \o v /\ Parsable(kind, v) =>
                    out = Kept(LAMBDA r : ReadsAs(d, kind, FieldValue(field_map, f, r),
                                                  UserValue(kind, v, tz)))

\* size<20MB on a listing of a 10MB and a 25MB record keeps the 10MB record
C1_Witness ==
    /\ pc = "done"
    /\ search_str = K_size \o <<"<">> \o <<"2", "0", "M", "B">>
    /\ Len(records) = 2
    /\ records[1][K_size] = 10485760
    /\ records[2][K_size] = 26214400
    /\ out = Returned(<<records[1]>>)

\* C2: the operator table of the help text: < keeps the records for which
\* the search string is less than the field, <= less or equal, > greater,
\* >= greater or equal, == equal.
C2_HelpTextOperatorTable ==
    pc = "done" =>
        \A f \in DOMAIN FieldMap(field_map), d \in ComparisonDelimiters,
           v \in AllSearchValues :
            LET kind == FieldMap(field_map)[f].kind
            IN  search_str = f \o d \o v /\ Parsable(kind, v) =>
                    out = Kept(LAMBDA r : ReadsAs(d, kind, UserValue(kind, v, tz),
                                                  FieldValue(field_map, f, r)))

\* the text a record value is shown as
Rendered(kind, value, zone) ==
    CASE kind = "String" -> value
      [] kind = "Bytes" -> RenderBytes(value)
      [] kind = "Datetime" -> RenderDatetime(value, zone)

\* C6: a bare literal keeps the records in which some field of the registry
\* has a rendered value containing the literal; the keys of the record that
\* the registry does not read play no part.
C6_BareLiteralAnyField ==
    pc = "done" /\ search_str \in BareLiterals =>
        out = Kept(LAMBDA r :
                \E f \in DOMAIN FieldMap(field_map) :
                    IsSubstring(Strip(search_str),
                                Rendered(FieldMap(field_map)[f].kind,
                                         FieldValue(field_map, f, r), tz)))

\* the literal ab keeps a record named ab and drops one that holds ab only
\* under a key no field reads
C6_Witness ==
    /\ pc = "done"
    /\ search_str = <<"a", "b">>
    /\ Len(records) = 2
    /\ records[1][K_etag] = <<"a", "b">>
    /\ FieldValue(field_map, K_name, records[2]) = <<"a", "b">>
    /\ out = Returned(<<records[2]>>)

\* ------------------------------------------------------- several clauses

\* the clauses joined by commas
RECURSIVE JoinClauses(_)
JoinClauses(cs) ==
    IF cs = << >> THEN << >>
    ELSE IF Len(cs) = 1 THEN cs[1]
    ELSE cs[1] \o <<",">> \o JoinClauses(Tail(cs))

\* name:a   type==im   size<20MB   tx   size>=x   bogus:1
ClausePool ==
    { K_name \o <<":", "a">>,
      K_type \o <<"=", "=", "i", "m">>,
      K_size \o <<"<", "2", "0", "M", "B">>,
      <<"t", "x">>,
      K_size \o <<">", "=", "x">>,
      <<"b", "o", "g", "u", "s", ":", "1">> }

\* all sequences of one to n clauses of the pool
RECURSIVE ClauseSeqs(_)
ClauseSeqs(n) ==
    IF n = 1 THEN {<<c>> : c \in ClausePool}
    ELSE ClauseSeqs(n - 1) \cup {Append(cs, c) : cs \in ClauseSeqs(n - 1), c \in ClausePool}

\* several clauses against a listing left in its order
InitAnd ==
    /\ pc = "call"
    /\ field_map \in Registries
    /\ records \in ListingsUpTo(Pool(field_map), MaxRecs)
    /\ search_str \in {JoinClauses(cs) : cs \in ClauseSeqs(MaxClauses)}
    /\ sort_by = << >>
    /\ ascending = TRUE
    /\ limit = 0 - 1
    /\ tz \in LocalZones
    /\ out = NoOut
    /\ parsed = << >>
    /\ trace = NoTrace
    /\ NoSync
    /\ NoClassify

SpecAnd == InitAnd /\ [][Next]_vars

\* the clauses of a search string that holds no escaped comma
RECURSIVE ClausesOf(_)
ClausesOf(s) ==
    IF \A i \in 1..Len(s) : s[i] # "," THEN <<s>>
    ELSE LET p == Min({i \in 1..Len(s) : s[i] = ","})
         IN  <<SubSeq(s, 1, p - 1)>> \o ClausesOf(SubSeq(s, p + 1, Len(s)))

\* what the search of clause c alone makes of the listing of the one record r
Alone(c, r) == FilterRecords(<<r>>, 0 - 1, c, << >>, TRUE, field_map, tz)

\* the predicate of clause c is defined on every record
WellFormed(c) == \A r \in Pool(field_map) : Alone(c, r).err = "None"

\* C3: with several clauses, the records kept are exactly those that each
\* clause alone keeps, in listing order, whatever the order of the clauses.
C3_ClausesAreAnded ==
    pc = "done" =>
        LET cs == ClausesOf(search_str)
        IN  (\A k \in 1..Len(cs) : WellFormed(cs[k])) =>
                /\ out = Kept(LAMBDA r : \A k \in 1..Len(cs) : Alone(cs[k], r).records = <<r>>)
                /\ out = FilterRecords(records, limit, JoinClauses(Reversed(cs)),
                                       sort_by, ascending, field_map, tz)

\* name:a,type==im on three records: one is kept, the others fail a clause
C3_Witness ==
    /\ pc = "done"
    /\ search_str = K_name \o <<":", "a", ",">> \o K_type \o <<"=", "=", "i", "m">>
    /\ Len(records) = 3
    /\ \E i \in 1..3 : Alone(K_name \o <<":", "a">>, records[i]).records = << >>
    /\ \E i \in 1..3 :
          /\ Alone(K_name \o <<":", "a">>, records[i]).records # << >>
          /\ Alone(K_type \o <<"=", "=", "i", "m">>, records[i]).records = << >>
    /\ out.err = "None"
    /\ Len(out.records) = 1

\* ------------------------------------------------------ sorting a listing

\* ways of writing a field name: the name itself first
Spellings(name) ==
    CASE name = K_last_modified ->
            {K_last_modified,
             <<"L", "a", "s", "t", " ", "M", "o", "d", "i", "f", "i", "e", "d">>,
             <<"L", "A", "S", "T", " ", "m", "o", "d", "i", "f", "i", "e", "d">>,
             <<" ", "l", "a", "s", "t", " ", "m", "o", "d", "i", "f", "i", "e", "d", " ">>}
      [] name = K_size -> {K_size, <<"S", "i", "z", "e">>, <<" ", "S", "I", "Z", "E">>}
      [] OTHER -> {name}

\* the names a sort or a query may be given: the fields, a record key that is
\* no field, and a name that is neither
SortNames == {K_bucket, K_id, K_name, K_size, K_type, K_last_modified, K_object_name,
              <<"b", "o", "g", "u", "s">>}

\* the operator and value a query on the field is given in this section
SortQueryTail(name) ==
    CASE name = K_last_modified -> <<"<", "1", "2", "Z">>
      [] name = K_size -> <<"<", "=", "2", "5", "M", "B">>

\* a listing searched on size or last_modified, or not at all, then sorted
InitSort ==
    /\ pc = "call"
    /\ field_map \in Registries
    /\ records \in ListingsUpTo(Pool(field_map), MaxRecs)
    /\ search_str \in {<< >>} \cup
          UNION {{sp \o SortQueryTail(name) : sp \in Spellings(name)} :
                    name \in {K_size, K_last_modified}}
    /\ sort_by \in {<< >>} \cup UNION {Spellings(name) : name \in SortNames}
    /\ ascending \in BOOLEAN
    /\ limit = 0 - 1
    /\ tz \in LocalZones
    /\ out = NoOut
    /\ parsed = << >>
    /\ trace = NoTrace
    /\ NoSync
    /\ NoClassify

SpecSort == InitSort /\ [][Next]_vars

\* ------------------------------------------------------ claims on sorting

\* the field name that s is a spelling of; s itself when it is none
CanonicalName(s) ==
    IF \E n \in SortNames : s \in Spellings(n)
    THEN CHOOSE n \in SortNames : s \in Spellings(n)
    ELSE s

\* the query of this section with its field name spelled canonically
CanonicalSearch(s) ==
    IF \E n \in {K_size, K_last_modified} :
          \E sp \in Spellings(n) : s = sp \o SortQueryTail(n)
    THEN LET n == CHOOSE m \in {K_size, K_last_modified} :
                      \E sp \in Spellings(m) : s = sp \o SortQueryTail(m)
         IN  n \o SortQueryTail(n)
    ELSE s

\* C7: a field name spelled in another case, with blanks for underscores or
\* with blanks around it, is the same field, in a query clause and in
\* sort_by alike: the call does what it does with the names spelled
\* canonically.
C7_FieldNameSpelling ==
    pc = "done" =>
        out = FilterRecords(records, limit, CanonicalSearch(search_str),
                            CanonicalName(sort_by), ascending, field_map, tz)

\* a query and a sort that both spell last_modified differently go through
C7_Witness ==
    /\ pc = "done"
    /\ search_str = <<"L", "a", "s", "t", " ", "M", "o", "d", "i", "f", "i", "e", "d">>
                      \o <<"<", "1", "2", "Z">>
    /\ sort_by = <<"L", "A", "S", "T", " ", "m", "o", "d", "i", "f", "i", "e", "d">>
    /\ Len(records) = 3
    /\ out.err = "None"
    /\ Len(out.records) = 2

\* the listing after the search step
Filtered == SearchRecords(records, search_str, field_map, tz).records

\* the number of places of the sequence that hold x
Count(seq, x) == Cardinality({i \in 1..Len(seq) : seq[i] = x})

IsPermutation(a, b) ==
    /\ Len(a) = Len(b)
    /\ \A i \in 1..Len(a) : Count(a, a[i]) = Count(b, a[i])

\* the sequence is in the order of the values under the key
Ordered(seq, key, asc) ==
    \A i, j \in 1..Len(seq) :
        i < j => IF asc THEN ~ValueLess(AttrKind(key), seq[j][key], seq[i][key])
                        ELSE ~ValueLess(AttrKind(key), seq[i][key], seq[j][key])

\* C8: with sort_by a field of the registry, the call returns the filtered
\* records ordered by the record attribute of that field, descending unless
\* ascending is set, and the result is a permutation of the filtered records.
C8_SortedByFieldAttribute ==
    pc = "done" /\ sort_by # << >> /\ CanonicalName(sort_by) \in DOMAIN FieldMap(field_map) =>
        LET attr == FieldMap(field_map)[CanonicalName(sort_by)].name
        IN  /\ out.err = "None"
            /\ IsPermutation(out.records, Filtered)
            /\ Ordered(out.records, attr, ascending)

\* the places of the sequence whose value under the key equals v
WithKey(seq, key, v) == SelectSeq(seq, LAMBDA r : ValueEq(AttrKind(key), r[key], v))

\* C9: a sort keeps records with equal sort keys in their listing order,
\* ascending or descending.
C9_SortIsStable ==
    pc = "done" /\ sort_by # << >> /\ out.err = "None" =>
        LET key == CanonicalName(sort_by)
            listed == Filtered
        IN  \A i \in 1..Len(listed) :
                WithKey(out.records, key, listed[i][key])
                  = WithKey(listed, key, listed[i][key])

\* a descending sort by size of three records, the first and last of equal
\* size and distinct: the larger one leads, the equal ones keep their order
C9_Witness ==
    /\ pc = "done"
    /\ sort_by = K_size
    /\ ~ascending
    /\ search_str = << >>
    /\ Len(records) = 3
    /\ records[1] # records[3]
    /\ records[1][K_size] = records[3][K_size]
    /\ records[2][K_size] > records[1][K_size]
    /\ out = Returned(<<records[2], records[1], records[3]>>)

\* C10: without sort_by the filtered records come back in reverse listing
\* order when ascending is false, and in listing order when it is true.
C10_NoSortByReversesOrKeeps ==
    pc = "done" /\ sort_by = << >> /\ out.err = "None" =>
        LET listed == Filtered
        IN  /\ Len(out.records) = Len(listed)
            /\ \A i \in 1..Len(listed) :
                  out.records[i] = IF ascending THEN listed[i]
                                   ELSE listed[Len(listed) + 1 - i]

\* three distinct records, no sort_by, ascending false: returned last first
C10_Witness ==
    /\ pc = "done"
    /\ sort_by = << >>
    /\ ~ascending
    /\ search_str = << >>
    /\ Len(records) = 3
    /\ Cardinality({records[i] : i \in 1..3}) = 3
    /\ out = Returned(<<records[3], records[2], records[1]>>)

\* C12: every field name of the registry is accepted as sort_by and sorts
\* by the record attribute its searcher is bound to (type by mime_type, the
\* S3 name by object_name), the attribute a query clause on it reads.
C12_FieldNameSortsBySearcherAttribute ==
    pc = "done" /\ sort_by \in DOMAIN FieldMap(field_map) =>
        LET attr == FieldMap(field_map)[sort_by].name
        IN  out = Returned(Sorted(Filtered, attr, ~ascending))

\* ---------------------------------------------- clauses the parser rejects

\* the clauses the parser rejects, each with what it is made of and the
\* error due.  UnknownFields: names that are no field of the registry, as
\* written and as normalised (a made-up name, a record key that is no field,
\* a field of another registry).  UnsupportedDelimiters: runs of delimiter
\* characters that are none of : == < <= > >=.
RejectedClauses(fm) ==
    LET UnknownFields ==
            { [spelled |-> <<" ", "B", "o", " ", "G", "u", "s">>,
               normalized |-> <<"b", "o", "_", "g", "u", "s">>],
              [spelled |-> K_etag, normalized |-> K_etag],
              IF fm = "gdrive"
              THEN [spelled |-> <<"B", "u", "c", "k", "e", "t">>, normalized |-> K_bucket]
              ELSE [spelled |-> <<"I", "D">>, normalized |-> K_id] }
        KnownFields ==
            { [spelled |-> K_size, normalized |-> K_size],
              [spelled |-> <<" ", "N", "a", "m", "e">>, normalized |-> K_name],
              [spelled |-> <<"L", "a", "s", "t", " ", "M", "o", "d", "i", "f", "i", "e", "d">>,
               normalized |-> K_last_modified] }
        UnsupportedDelimiters ==
            {<<"=">>, <<"=", "<">>, <<"<", ">">>, <<"=", ">">>, <<":", "=">>,
             <<"=", "=", "=">>}
        AnyDelimiters == {<<":">>, <<"<", "=">>, <<"=", "=">>, <<"=">>, <<"<", ">">>}
        RejectedClause(f, d, v, error) ==
            [clause |-> f.spelled \o d \o v, key |-> f.spelled,
             key_normalized |-> f.normalized, delimiter |-> d, error |-> error]
    IN  {RejectedClause(f, d, v, "KeyError: unsupported key") :
            f \in UnknownFields, d \in AnyDelimiters, v \in {<<"1">>, <<"x">>}}
        \cup
        {RejectedClause(f, d, v, "KeyError: unsupported delimiter") :
            f \in KnownFields, d \in UnsupportedDelimiters,
            v \in {<<"1">>, <<"1", "0", "M", "B">>}}

\* clauses a rejected clause stands next to: name:a keeps some records, zz
\* keeps none, size>=x cannot be evaluated
Neighbours ==
    {K_name \o <<":", "a">>, <<"z", "z">>, K_size \o <<">", "=", "x">>}

\* a rejected clause alone, after a neighbour and before one
RejectedQueries(fm) ==
    UNION {{c.clause} \cup {n \o <<",">> \o c.clause : n \in Neighbours}
                      \cup {c.clause \o <<",">> \o n : n \in Neighbours} :
           c \in RejectedClauses(fm)}

\* a query that holds a rejected clause, against a listing left in its order
InitRejected ==
    /\ pc = "call"
    /\ field_map \in {"s3", "gdrive"}
    /\ records \in ListingsUpTo(Pool(field_map), MaxRecs)
    /\ search_str \in RejectedQueries(field_map)
    /\ sort_by = << >>
    /\ ascending = TRUE
    /\ limit = 0 - 1
    /\ tz = 1
    /\ out = NoOut
    /\ parsed = << >>
    /\ trace = NoTrace
    /\ NoSync
    /\ NoClassify

SpecRejected == InitRejected /\ [][Next]_vars

\* the field names of a registry
CanonicalFieldNames(fm) ==
    IF fm = "gdrive" THEN {K_id, K_name, K_size, K_type, K_last_modified}
    ELSE {K_bucket, K_name, K_size, K_type, K_last_modified}

\* the call failed at or before the k-th clause and returned nothing
FailedBy(k) ==
    /\ out.err # "None"
    /\ out.records = << >>
    /\ trace.clause \in 1..k

\* the call failed at the k-th clause with the error and the message
FailedAt(k, error, arguments) ==
    /\ out = Raised(error)
    /\ trace.clause = k
    /\ trace.message = Message(error, arguments)

\* the rejected clauses with the error that stand at the k-th place of cs
RejectedAt(cs, k, error) ==
    {c \in RejectedClauses(field_map) : c.clause = cs[k] /\ c.error = error}

\* the predicates of the clauses before the k-th are defined on every record
ReachedOnAnyListing(cs, k) == \A j \in 1..(k - 1) : WellFormed(cs[j])

\* C13: a typed clause whose field name, normalised, is no field of the
\* registry is fatal whatever its operator and value: the call returns no
\* records and never gets past the clause, and when the parser comes to the
\* clause it raises an error that reports the name as written, the name as
\* normalised and the field names of the registry.
C13_UnknownFieldIsFatal ==
    pc = "done" =>
        LET cs == ClausesOf(search_str)
        IN  \A k \in 1..Len(cs) :
                \A c \in RejectedAt(cs, k, "KeyError: unsupported key") :
                    /\ FailedBy(k)
                    /\ ReachedOnAnyListing(cs, k) =>
                          FailedAt(k, "KeyError: unsupported key",
                                   <<search_str, c.key, c.key_normalized,
                                     CanonicalFieldNames(field_map)>>)

\* name:a, Bo Gus=1 on three records: name:a is evaluated, then the second
\* clause is rejected for its field although its delimiter is none either
C13_Witness ==
    /\ pc = "done"
    /\ search_str = K_name \o <<":", "a", ",", " ", "B", "o", " ", "G", "u", "s", "=", "1">>
    /\ Len(records) = 3
    /\ out = Raised("KeyError: unsupported key")
    /\ trace.clause = 2
    /\ trace.message.args[2] = <<" ", "B", "o", " ", "G", "u", "s">>
    /\ trace.message.args[3] = <<"b", "o", "_", "g", "u", "s">>

\* C14: a clause on a field of the registry whose delimiter is none of
\* : == < <= > >= is fatal: the call returns no records, and when the
\* parser comes to the clause it raises an error that names the query and
\* the delimiter; the delimiter is never read as a supported operator.
C14_UnsupportedDelimiterIsFatal ==
    pc = "done" =>
        LET cs == ClausesOf(search_str)
        IN  \A k \in 1..Len(cs) :
                \A c \in RejectedAt(cs, k, "KeyError: unsupported delimiter") :
                    /\ FailedBy(k)
                    /\ ReachedOnAnyListing(cs, k) =>
                          FailedAt(k, "KeyError: unsupported delimiter",
                                   <<search_str, c.delimiter>>)

\* size<>10MB on three records: the clause is rejected before any record
\* is looked at, not read as size<
C14_Witness ==
    /\ pc = "done"
    /\ search_str = K_size \o <<"<", ">", "1", "0", "M", "B">>
    /\ Len(records) = 3
    /\ out = Raised("KeyError: unsupported delimiter")
    /\ trace.clause = 1
    /\ trace.evals = 0
    /\ trace.message.args = <<search_str, <<"<", ">">>>>

\* C15: a sort_by that, normalised, is no field name of the registry is
\* fatal for every listing: the call raises the error that lists the field
\* names of the registry and returns no records.
C15_InvalidSortByIsFatal ==
    pc = "done" /\ sort_by # << >>
                /\ CanonicalName(sort_by) \notin CanonicalFieldNames(field_map) =>
        /\ out = Raised("KeyError: invalid sort by field")
        /\ trace.message = Message("KeyError: invalid sort by field",
                                   <<sort_by, CanonicalName(sort_by),
                                     CanonicalFieldNames(field_map)>>)

\* size>=x: a comparison on the byte-size field whose value is no byte size
UnparsableComparison == K_size \o <<">", "=", "x">>

\* C16: a comparison clause on a byte-size or datetime field whose value
\* cannot be parsed is fatal for the query: for every listing and every
\* place of the clause, the call raises a value-parse error and returns no
\* records.  (Queries that also hold a clause the parser rejects are left
\* out.)
C16_UnparsableValueIsFatal ==
    pc = "done" =>
        LET cs == ClausesOf(search_str)
        IN  /\ \E k \in 1..Len(cs) : cs[k] = UnparsableComparison
            /\ \A k \in 1..Len(cs) : cs[k] = UnparsableComparison \/ WellFormed(cs[k])
            => out = Raised("ValueError: unparsable value")

\* C17: when a clause of the query has an unknown field or an unsupported
\* delimiter, or sort_by is invalid, the call raises that error before any
\* predicate has been evaluated on any record, and returns no records.
C17_ValidationBeforeEvaluation ==
    pc = "done" =>
        LET cs == ClausesOf(search_str)
            rejected == {k \in 1..Len(cs) :
                            \E c \in RejectedClauses(field_map) : c.clause = cs[k]}
            invalid_sort == /\ sort_by # << >>
                            /\ CanonicalName(sort_by) \notin CanonicalFieldNames(field_map)
        IN  rejected # {} \/ invalid_sort =>
                /\ out.err \in {"KeyError: unsupported key",
                                "KeyError: unsupported delimiter",
                                "KeyError: invalid sort by field"}
                /\ out.records = << >>
                /\ trace.evals = 0

\* ----------------------------------------------------- limiting a listing

\* the limits a list command is given: the default -1, 0, and positive ones
\* below, at and above the length of the longest listing
Limits == (0 - 1)..(MaxRecs + 1)

\* a listing searched or not, sorted or not, then limited
InitLimit ==
    /\ pc = "call"
    /\ field_map \in {"s3", "gdrive"}
    /\ records \in ListingsUpTo(Pool(field_map), MaxRecs)
    /\ search_str \in {<< >>, <<"i", "m">>, K_size \o <<">", "=", "1", "0", "M", "B">>}
    /\ sort_by \in {<< >>, K_size}
    /\ ascending \in BOOLEAN
    /\ limit \in Limits
    /\ tz = 1
    /\ out = NoOut
    /\ parsed = << >>
    /\ trace = NoTrace
    /\ NoSync
    /\ NoClassify

SpecLimit == InitLimit /\ [][Next]_vars

\* the listing after the search and sort steps
FilteredAndOrdered ==
    SortRecords(SearchRecords(records, search_str, field_map, tz).records,
                sort_by, ascending).records

\* C11: the limit is applied last: with limit > 0 the call returns the
\* first min(limit, n) records of the filtered and ordered sequence of
\* length n, with limit = 0 or negative it returns that whole sequence.
C11_LimitAppliedLast ==
    pc = "done" /\ out.err = "None" =>
        LET full == FilteredAndOrdered
            n == Len(full)
            kept == IF limit > 0 THEN (IF limit < n THEN limit ELSE n) ELSE n
        IN  /\ Len(out.records) = kept
            /\ \A i \in 1..kept : out.records[i] = full[i]

\* a search that drops a record, a sort that moves the last record to the
\* front, and a limit that cuts the result to that one record
C11_Witness ==
    /\ pc = "done"
    /\ limit = 1
    /\ sort_by = K_size
    /\ ~ascending
    /\ search_str = <<"i", "m">>
    /\ Len(records) = 3
    /\ Len(FilteredAndOrdered) = 2
    /\ out = Returned(<<records[3]>>)
    /\ records[3] # records[1]

\* ====================================================== directory commands

\* most files at the top of a directory
MaxFiles == 3
\* most times the command is started on the same two directories
MaxRuns == 2

\* relative paths: files at the top of the directory and one in a subfolder
FileNames == <<"a.txt", "b.txt", "c.txt", "d.txt", "e.txt">>
NestedFile == "sub/n.txt"
Paths == {FileNames[i] : i \in 1..MaxFiles} \cup {NestedFile}

\* the place of a path in a listing
PathIndex(p) ==
    IF p = NestedFile THEN MaxFiles + 1
    ELSE CHOOSE i \in 1..MaxFiles : FileNames[i] = p

\* the directories that hold some of the paths, each file with the content
Directories(content) == {[p \in S |-> content] : S \in SUBSET Paths}

\* ---------------------------------------------------- the commands' run()

\* mutant: --overwrite is not passed on
S3UploadDirectoryCommand_DropsOverwrite(a) ==
    IF a.sync
    THEN [method |-> "upload_dir_sync", recursive |-> a.recursive]
    ELSE [method |-> "upload_dir", recursive |-> a.recursive]

\* mutant: upload-dir --sync calls the download sync
S3UploadDirectoryCommand_Downloads(a) ==
    IF a.sync
    THEN [method |-> "download_dir_sync", overwrite |-> a.overwrite,
          recursive |-> a.recursive]
    ELSE [method |-> "upload_dir", recursive |-> a.recursive]

\* mutant: a sync always overwrites
S3UploadDirectoryCommand_OverwritesInSync(a) ==
    IF a.sync
    THEN [method |-> "upload_dir_sync", overwrite |-> TRUE, recursive |-> a.recursive]
    ELSE [method |-> "upload_dir", recursive |-> a.recursive]

\* S3UploadDirectoryCommand.run(args): the client call it makes
S3UploadDirectoryCommand(a) ==
    IF a.sync
    THEN [method |-> "upload_dir_sync", overwrite |-> a.overwrite,
          recursive |-> a.recursive]
    ELSE [method |-> "upload_dir", recursive |-> a.recursive]

\* S3DownloadDirectoryCommand.run(args)
S3DownloadDirectoryCommand(a) ==
    IF a.sync
    THEN [method |-> "download_dir_sync", overwrite |-> a.overwrite,
          recursive |-> a.recursive]
    ELSE [method |-> "download_dir", recursive |-> a.recursive]

\* GCSUploadDirectoryCommand.run(args)
GCSUploadDirectoryCommand(a) ==
    IF a.sync
    THEN [method |-> "upload_dir_sync", overwrite |-> a.overwrite,
          recursive |-> a.recursive]
    ELSE [method |-> "upload_dir", recursive |-> a.recursive]

\* GCSDownloadDirectoryCommand.run(args)
GCSDownloadDirectoryCommand(a) ==
    IF a.sync
    THEN [method |-> "download_dir_sync", overwrite |-> a.overwrite,
          recursive |-> a.recursive]
    ELSE [method |-> "download_dir", recursive |-> a.recursive]

\* mutant: upload-dir skips failures whether or not --skip-failures is given
GoogleDriveUploadDirectoryCommand_AlwaysSkipsFailures(a) ==
    [method |-> "upload_files_in_folder", skip_failures |-> TRUE,
     skip_existing_files |-> a.skip_existing, recursive |-> a.recursive]

\* mutant: --skip-existing is not passed on
GoogleDriveUploadDirectoryCommand_DropsSkipExisting(a) ==
    [method |-> "upload_files_in_folder", skip_failures |-> a.skip_failures,
     recursive |-> a.recursive]

\* GoogleDriveUploadDirectoryCommand.run(args)
GoogleDriveUploadDirectoryCommand(a) ==
    [method |-> "upload_files_in_folder", skip_failures |-> a.skip_failures,
     skip_existing_files |-> a.skip_existing, recursive |-> a.recursive]

\* mutant: --skip-failures is not passed on
GoogleDriveDownloadDirectoryCommand_DropsSkipFailures(a) ==
    [method |-> "download_files_in_folder", skip_existing_files |-> a.skip_existing,
     recursive |-> a.recursive]

\* GoogleDriveDownloadDirectoryCommand.run(args)
GoogleDriveDownloadDirectoryCommand(a) ==
    [method |-> "download_files_in_folder", skip_failures |-> a.skip_failures,
     skip_existing_files |-> a.skip_existing, recursive |-> a.recursive]

\* the run() of the command the command line names
CommandRun(a) ==
    CASE a.command = "s3 upload-dir" -> S3UploadDirectoryCommand(a)
      [] a.command = "s3 download-dir" -> S3DownloadDirectoryCommand(a)
      [] a.command = "gcs upload-dir" -> GCSUploadDirectoryCommand(a)
      [] a.command = "gcs download-dir" -> GCSDownloadDirectoryCommand(a)
      [] a.command = "gdrive upload-dir" -> GoogleDriveUploadDirectoryCommand(a)
      [] a.command = "gdrive download-dir" -> GoogleDriveDownloadDirectoryCommand(a)

\* the command lines: setup() of the six commands, every flag a store_true
CommandLines ==
    [command : {"s3 upload-dir", "s3 download-dir", "gcs upload-dir", "gcs download-dir"},
     sync : BOOLEAN, overwrite : BOOLEAN, recursive : BOOLEAN]
    \cup
    [command : {"gdrive upload-dir", "gdrive download-dir"},
     skip_failures : BOOLEAN, skip_existing : BOOLEAN, recursive : BOOLEAN]

\* ------------------------------------------------------ the storage client

\* an argument of the client call, or the default when it is not passed
Arg(c, name, default) == IF name \in DOMAIN c THEN c[name] ELSE default

\* upload: local to remote; download: remote to local
Direction(c) ==
    IF c.method \in {"upload_dir_sync", "upload_dir", "upload_files_in_folder"}
    THEN "upload" ELSE "download"

\* the *_sync methods reconcile, the others copy
IsSync(c) == c.method \in {"upload_dir_sync", "download_dir_sync"}

\* listFolder(path, recursive): without recursive, the direct children only
ListFolder(files, recursive) == {p \in DOMAIN files : recursive \/ p # NestedFile}

\* the paths of a set as a sequence, in listing order
InOrder(S) ==
    [i \in 1..Cardinality(S) |->
        CHOOSE p \in S : Cardinality({q \in S : PathIndex(q) <= PathIndex(p)}) = i]

\* what is planned for a source path: a path the destination lacks is
\* transferred; one it has is skipped under skip_existing_files, else
\* transferred by a copy, and by a sync only with overwrite
PlannedAction(c, p, dest) ==
    IF p \notin dest THEN "Transfer"
    ELSE IF Arg(c, "skip_existing_files", FALSE) THEN "Skip"
    ELSE IF ~IsSync(c) \/ Arg(c, "overwrite", FALSE) THEN "Transfer"
    ELSE "Skip"

\* the transfer plan of the call for the two directories as they are listed
MakePlan(c, loc, cld) ==
    LET L == ListFolder(loc, c.recursive)
        R == ListFolder(cld, c.recursive)
        source == IF Direction(c) = "upload" THEN L ELSE R
        dest == IF Direction(c) = "upload" THEN R ELSE L
        paths == InOrder(source)
    IN  [i \in 1..Len(paths) |->
            [path |-> paths[i], action |-> PlannedAction(c, paths[i], dest)]]

\* the directory with the file at path p written
Put(files, p, content) ==
    [q \in DOMAIN files \cup {p} |-> IF q = p THEN content ELSE files[q]]

\* ------------------------------------------------------------------ actions

\* the command's run() makes its client call
RunDirectoryCommand ==
    /\ phase = "idle"
    /\ args # NoArgs
    /\ call' = CommandRun(args)
    /\ phase' = "planning"
    /\ runs' = runs + 1
    /\ UNCHANGED <<cloud_folder, args, local_files, cloud_files, before, plan, cursor, attempts,
                   failures, raised>>
    /\ UNCHANGED queryVars
    /\ UNCHANGED classifyVars

\* mutant: the first transfer of the plan is made while planning
PlanTransfers_StartsTransferring ==
    /\ phase = "planning"
    /\ plan' = MakePlan(call, local_files, cloud_files)
    /\ LET first == SelectSeq(plan', LAMBDA item : item.action = "Transfer")
       IN  IF first = << >>
           THEN UNCHANGED <<local_files, cloud_files, attempts>> /\ cursor' = 1
           ELSE /\ IF Direction(call) = "upload"
                   THEN /\ cloud_files' =
                              Put(cloud_files, first[1].path, local_files[first[1].path])
                        /\ UNCHANGED local_files
                   ELSE /\ local_files' =
                              Put(local_files, first[1].path, cloud_files[first[1].path])
                        /\ UNCHANGED cloud_files
                /\ attempts' = Append(attempts, [path |-> first[1].path, ok |-> TRUE])
                /\ cursor' = 1
    /\ phase' = "planning"
    /\ UNCHANGED <<cloud_folder, runs, args, before, call, failures, raised>>
    /\ UNCHANGED queryVars
    /\ UNCHANGED classifyVars

\* Planning: both sides are listed and the whole plan is computed
PlanTransfers ==
    /\ phase = "planning"
    /\ plan' = MakePlan(call, local_files, cloud_files)
    /\ cursor' = 1
    /\ phase' = "executing"
    /\ UNCHANGED <<cloud_folder, runs, args, local_files, cloud_files, before, call, attempts, failures,
                   raised>>
    /\ UNCHANGED queryVars
    /\ UNCHANGED classifyVars

\* Planning: a listing call fails, which is fatal
ListingFails ==
    /\ phase = "planning"
    /\ raised' = [error |-> "ListingError", path |-> ""]
    /\ phase' = "failed"
    /\ UNCHANGED <<cloud_folder, runs, args, local_files, cloud_files, before, call, plan, cursor, attempts,
                   failures>>
    /\ UNCHANGED queryVars
    /\ UNCHANGED classifyVars

\* Executing: the next item of the plan is a Skip
SkipItem ==
    /\ phase = "executing"
    /\ cursor <= Len(plan)
    /\ plan[cursor].action = "Skip"
    /\ cursor' = cursor + 1
    /\ UNCHANGED <<cloud_folder, runs, args, local_files, cloud_files, before, phase, call, plan, attempts,
                   failures, raised>>
    /\ UNCHANGED queryVars
    /\ UNCHANGED classifyVars

\* Executing: the next item is transferred: the destination gets the file
TransferSucceeds ==
    /\ phase = "executing"
    /\ cursor <= Len(plan)
    /\ plan[cursor].action = "Transfer"
    /\ LET p == plan[cursor].path
       IN  /\ IF Direction(call) = "upload"
              THEN /\ cloud_files' = Put(cloud_files, p, local_files[p])
                   /\ UNCHANGED local_files
              ELSE /\ local_files' = Put(local_files, p, cloud_files[p])
                   /\ UNCHANGED cloud_files
           /\ attempts' = Append(attempts, [path |-> p, ok |-> TRUE])
    /\ cursor' = cursor + 1
    /\ UNCHANGED <<cloud_folder, runs, args, before, phase, call, plan, failures, raised>>
    /\ UNCHANGED queryVars
    /\ UNCHANGED classifyVars

\* Executing: the transfer of the next item fails and changes nothing; with
\* skip_failures it is recorded and the run goes on, else it is raised
TransferFails ==
    /\ phase = "executing"
    /\ cursor <= Len(plan)
    /\ plan[cursor].action = "Transfer"
    /\ LET p == plan[cursor].path
       IN  /\ attempts' = Append(attempts, [path |-> p, ok |-> FALSE])
           /\ IF Arg(call, "skip_failures", FALSE)
              THEN /\ failures' = Append(failures, [path |-> p, error |-> "TransferError"])
                   /\ cursor' = cursor + 1
                   /\ UNCHANGED <<phase, raised>>
              ELSE /\ raised' = [error |-> "TransferError", path |-> p]
                   /\ phase' = "failed"
                   /\ UNCHANGED <<failures, cursor>>
    /\ UNCHANGED <<cloud_folder, runs, args, local_files, cloud_files, before, call, plan>>
    /\ UNCHANGED queryVars
    /\ UNCHANGED classifyVars

\* the plan is exhausted: the call returns
Finish ==
    /\ phase = "executing"
    /\ cursor > Len(plan)
    /\ phase' = "done"
    /\ UNCHANGED <<cloud_folder, runs, args, local_files, cloud_files, before, call, plan, cursor, attempts,
                   failures, raised>>
    /\ UNCHANGED queryVars
    /\ UNCHANGED classifyVars

SyncNext ==
    \/ RunDirectoryCommand
    \/ PlanTransfers
    \/ ListingFails
    \/ SkipItem
    \/ TransferSucceeds
    \/ TransferFails
    \/ Finish

\* no list command is running
NoQuery ==
    /\ pc = "none"
    /\ field_map = "s3"
    /\ records = << >>
    /\ search_str = << >>
    /\ sort_by = << >>
    /\ ascending = FALSE
    /\ limit = 0 - 1
    /\ tz = 0
    /\ out = NoOut
    /\ parsed = << >>
    /\ trace = NoTrace

\* a directory command on a local directory and a remote folder that each
\* hold some of the paths; a file's content tells the side it is from
InitSync ==
    /\ NoQuery
    /\ NoClassify
    /\ args \in CommandLines
    /\ local_files \in Directories("local")
    /\ cloud_files \in Directories("cloud")
    /\ before = [local |-> local_files, cloud |-> cloud_files]
    /\ phase = "idle"
    /\ call = NoCall
    /\ plan = << >>
    /\ cursor = 0
    /\ attempts = << >>
    /\ failures = << >>
    /\ raised = NoError
    /\ runs = 0
    /\ cloud_folder = TRUE

SpecSync == InitSync /\ [][SyncNext]_vars

\* the command has returned and the same command line is given again, with
\* or without --overwrite, on the two directories as the run left them
RunAgain ==
    /\ phase = "done"
    /\ runs < MaxRuns
    /\ \E o \in BOOLEAN :
           args' = IF "overwrite" \in DOMAIN args THEN [args EXCEPT !.overwrite = o]
                   ELSE args
    /\ before' = [local |-> local_files, cloud |-> cloud_files]
    /\ phase' = "idle"
    /\ call' = NoCall
    /\ plan' = << >>
    /\ cursor' = 0
    /\ attempts' = << >>
    /\ failures' = << >>
    /\ raised' = NoError
    /\ UNCHANGED <<local_files, cloud_files, runs, cloud_folder>>
    /\ UNCHANGED queryVars
    /\ UNCHANGED classifyVars

ResyncNext ==
    \/ SyncNext
    \/ RunAgain

SpecResync == InitSync /\ [][ResyncNext]_vars

\* ------------------------------------------------- claims on sync and copy

\* the command line asks for a sync
SyncRun == "sync" \in DOMAIN args /\ args.sync

\* the command line asks for an upload
UploadRun == args.command \in {"s3 upload-dir", "gcs upload-dir", "gdrive upload-dir"}

\* the relative paths of a side when the command started
Listed(files) == {p \in DOMAIN files : args.recursive \/ p # NestedFile}

\* the source and destination sides when the command started, and now
SourceBefore == IF UploadRun THEN before.local ELSE before.cloud
DestBefore == IF UploadRun THEN before.cloud ELSE before.local
SourceNow == IF UploadRun THEN local_files ELSE cloud_files
DestNow == IF UploadRun THEN cloud_files ELSE local_files

\* the paths the plan holds with the action
Planned(action) == {plan[i].path : i \in {j \in 1..Len(plan) : plan[j].action = action}}

\* the plan has been computed
PlanningDone == phase \in {"executing", "done"} \/ raised.error = "TransferError"

\* C18: the plan of a sync holds the listed source paths, each once: those
\* the destination lacks as Transfer, those on both sides as Transfer with
\* overwrite and as Skip without; for local {a.txt, b.txt} and remote
\* {b.txt, c.txt} an upload plans the transfer of a.txt alone without
\* overwrite and of a.txt and b.txt with it.
C18_SyncPlan ==
    SyncRun /\ PlanningDone =>
        LET source == Listed(SourceBefore)
            dest == Listed(DestBefore)
        IN  /\ Len(plan) = Cardinality(source)
            /\ Planned("Transfer") \cup Planned("Skip") = source
            /\ Planned("Transfer") =
                   (source \ dest) \cup (IF args.overwrite THEN source \cap dest ELSE {})
            /\ Planned("Skip") = (IF args.overwrite THEN {} ELSE source \cap dest)
            /\ UploadRun /\ DOMAIN before.local = {"a.txt", "b.txt"}
                         /\ DOMAIN before.cloud = {"b.txt", "c.txt"} =>
                  Planned("Transfer") = IF args.overwrite THEN {"a.txt", "b.txt"}
                                        ELSE {"a.txt"}

\* s3 upload-dir --sync of {a.txt, b.txt} to {b.txt, c.txt} without
\* --overwrite: a.txt has been uploaded, b.txt and c.txt are as they were
C18_Witness ==
    /\ phase = "done"
    /\ args.command = "s3 upload-dir"
    /\ SyncRun
    /\ ~args.overwrite
    /\ DOMAIN before.local = {"a.txt", "b.txt"}
    /\ DOMAIN before.cloud = {"b.txt", "c.txt"}
    /\ plan = <<[path |-> "a.txt", action |-> "Transfer"],
                [path |-> "b.txt", action |-> "Skip"]>>
    /\ attempts = <<[path |-> "a.txt", ok |-> TRUE]>>
    /\ cloud_files = [p \in {"a.txt", "b.txt", "c.txt"} |->
                          IF p = "a.txt" THEN "local" ELSE "cloud"]

C20_PlanningBeforeExecuting ==
    /\ phase \in {"idle", "planning"} \/ raised.error = "ListingError" =>
          /\ attempts = << >>
          /\ local_files = before.local
          /\ cloud_files = before.cloud
    /\ attempts # << >> =>
          /\ PlanningDone
          /\ Planned("Transfer") \cup Planned("Skip") = Listed(SourceBefore)
          /\ \A i \in 1..Len(attempts) : attempts[i].path \in Planned("Transfer")

\* gcs upload-dir --sync of two files to an empty folder whose listing
\* failed: nothing was planned or uploaded
C20_Witness ==
    /\ phase = "failed"
    /\ raised.error = "ListingError"
    /\ args.command = "gcs upload-dir"
    /\ SyncRun
    /\ DOMAIN local_files = {"a.txt", "b.txt"}
    /\ cloud_files = << >>
    /\ attempts = << >>
    /\ plan = << >>

\* --------------------------------------------- claims on failed transfers

\* the command line asks for failures to be skipped
SkipFailuresRun == "skip_failures" \in DOMAIN args /\ args.skip_failures

\* the command line asks for existing files to be skipped
SkipExistingRun == "skip_existing" \in DOMAIN args /\ args.skip_existing

\* the paths the plan transfers, in plan order
TransferPaths ==
    LET items == SelectSeq(plan, LAMBDA item : item.action = "Transfer")
    IN  [i \in 1..Len(items) |-> items[i].path]

\* the paths of the attempts made, in order
AttemptedPaths == [i \in 1..Len(attempts) |-> attempts[i].path]

\* the attempts that failed, as the entries a failure report holds for them
FailedEntries ==
    LET failed == SelectSeq(attempts, LAMBDA a : ~a.ok)
    IN  [i \in 1..Len(failed) |-> [path |-> failed[i].path, error |-> "TransferError"]]

\* C21: without skip-failures the first transfer that fails ends the run:
\* it is the last attempt made, the items the plan holds after it are not
\* attempted, the files transferred before it are on the destination, and
\* its error is raised to the command (nothing is put in a failure report).
C21_FirstFailureAborts ==
    ~SkipFailuresRun =>
        /\ failures = << >>
        /\ \A i \in 1..Len(attempts) :
               /\ i < Len(attempts) =>
                     /\ attempts[i].ok
                     /\ attempts[i].path \in DOMAIN DestNow
                     /\ DestNow[attempts[i].path] = SourceBefore[attempts[i].path]
               /\ ~attempts[i].ok =>
                     /\ i = Len(attempts)
                     /\ phase = "failed"
                     /\ raised = [error |-> "TransferError", path |-> attempts[i].path]
                     /\ plan[cursor].path = attempts[i].path
        /\ AttemptedPaths = SubSeq(TransferPaths, 1, Len(attempts))

\* s3 upload-dir of three files to an empty folder: the upload of the second
\* failed, the first is in the folder and the third was never tried
C21_Witness ==
    /\ phase = "failed"
    /\ args.command = "s3 upload-dir"
    /\ ~SyncRun
    /\ TransferPaths = <<"a.txt", "b.txt", "c.txt">>
    /\ attempts = <<[path |-> "a.txt", ok |-> TRUE], [path |-> "b.txt", ok |-> FALSE]>>
    /\ raised = [error |-> "TransferError", path |-> "b.txt"]
    /\ cloud_files = [p \in {"a.txt"} |-> "local"]

\* C22: with skip-failures no failed transfer ends the run: the attempts
\* made are the planned transfers in plan order, each once, all of them
\* when the call returns; the failure report holds one (path, error) entry
\* per failed attempt and none for a transfer that succeeded; of three
\* planned transfers whose second fails the third is attempted and the
\* report holds the one entry of the second path.
C22_SkipFailuresAttemptsAll ==
    SkipFailuresRun =>
        /\ raised.error # "TransferError"
        /\ AttemptedPaths = SubSeq(TransferPaths, 1, Len(attempts))
        /\ phase = "executing" =>
              Len(attempts) =
                  Cardinality({j \in 1..(cursor - 1) : plan[j].action = "Transfer"})
        /\ phase = "done" => AttemptedPaths = TransferPaths
        /\ failures = FailedEntries
        /\ phase = "done" /\ Len(TransferPaths) = 3 /\ attempts[1].ok /\ ~attempts[2].ok
               /\ attempts[3].ok =>
              failures = <<[path |-> TransferPaths[2], error |-> "TransferError"]>>

\* gdrive download-dir --skip-failures of three files to an empty directory:
\* the second download failed, the third was made, the report has one entry
C22_Witness ==
    /\ phase = "done"
    /\ args.command = "gdrive download-dir"
    /\ SkipFailuresRun
    /\ TransferPaths = <<"a.txt", "b.txt", "c.txt">>
    /\ attempts = <<[path |-> "a.txt", ok |-> TRUE], [path |-> "b.txt", ok |-> FALSE],
                    [path |-> "c.txt", ok |-> TRUE]>>
    /\ failures = <<[path |-> "b.txt", error |-> "TransferError"]>>
    /\ DOMAIN local_files = {"a.txt", "c.txt"}

\* C24: with skip-existing every listed source file the destination has is
\* planned as Skip and every one it lacks as Transfer; no file the
\* destination had is transferred or changed, and a file it lacked is
\* there once its transfer succeeded.
C24_SkipExistingFiles ==
    SkipExistingRun =>
        /\ PlanningDone =>
              /\ Planned("Skip") = Listed(SourceBefore) \cap Listed(DestBefore)
              /\ Planned("Transfer") = Listed(SourceBefore) \ Listed(DestBefore)
        /\ \A p \in DOMAIN DestBefore :
               p \in DOMAIN DestNow /\ DestNow[p] = DestBefore[p]
        /\ \A i \in 1..Len(attempts) :
               /\ attempts[i].path \notin DOMAIN DestBefore
               /\ attempts[i].ok =>
                     /\ attempts[i].path \in DOMAIN DestNow
                     /\ DestNow[attempts[i].path] = SourceBefore[attempts[i].path]
        /\ phase = "done" /\ failures = << >> =>
              Listed(SourceBefore) \subseteq DOMAIN DestNow

\* gdrive upload-dir --skip-existing of {a.txt, b.txt} to a folder that has
\* b.txt: a.txt was uploaded and the folder's b.txt is the one it had
C24_Witness ==
    /\ phase = "done"
    /\ args.command = "gdrive upload-dir"
    /\ SkipExistingRun
    /\ DOMAIN before.local = {"a.txt", "b.txt"}
    /\ DOMAIN before.cloud = {"b.txt"}
    /\ plan = <<[path |-> "a.txt", action |-> "Transfer"],
                [path |-> "b.txt", action |-> "Skip"]>>
    /\ attempts = <<[path |-> "a.txt", ok |-> TRUE]>>
    /\ cloud_files = [p \in {"a.txt", "b.txt"} |-> IF p = "a.txt" THEN "local" ELSE "cloud"]

\* ----------------------------------------------------- claims on a rerun

\* C23: a sync started again without --overwrite, after the same sync
\* (with or without --overwrite) has returned and with the source side as
\* that run left it, plans no Transfer, attempts none, and leaves both
\* sides as they were.
C23_SecondSyncTransfersNothing ==
    runs >= 2 /\ SyncRun /\ ~args.overwrite =>
        /\ PlanningDone => Planned("Transfer") = {}
        /\ attempts = << >>
        /\ local_files = before.local
        /\ cloud_files = before.cloud

\* s3 upload-dir --sync given twice for {a.txt, b.txt} and a folder that had
\* {b.txt, c.txt}: the first run uploaded a.txt, the second has returned
\* with both files skipped
C23_Witness ==
    /\ runs = 2
    /\ phase = "done"
    /\ args.command = "s3 upload-dir"
    /\ SyncRun
    /\ ~args.overwrite
    /\ DOMAIN local_files = {"a.txt", "b.txt"}
    /\ plan = <<[path |-> "a.txt", action |-> "Skip"], [path |-> "b.txt", action |-> "Skip"]>>
    /\ attempts = << >>
    /\ cloud_files = [p \in {"a.txt", "b.txt", "c.txt"} |->
                          IF p = "a.txt" THEN "local" ELSE "cloud"]

\* ============================================================== delete-dir

\* mutant: --skip-failures is not passed on
GoogleDriveDeleteDirCommand_DropsSkipFailures(a) ==
    IF a.contents_only
    THEN [method |-> "delete_folder_contents"]
    ELSE [method |-> "delete_folder"]

\* GoogleDriveDeleteDirCommand.run(args): the client call it makes
GoogleDriveDeleteDirCommand(a) ==
    IF a.contents_only
    THEN [method |-> "delete_folder_contents", skip_failures |-> a.skip_failures]
    ELSE [method |-> "delete_folder"]

\* the command's run() makes its client call
RunDeleteCommand ==
    /\ phase = "idle"
    /\ args # NoArgs
    /\ call' = GoogleDriveDeleteDirCommand(args)
    /\ phase' = "planning"
    /\ runs' = runs + 1
    /\ UNCHANGED <<cloud_folder, args, local_files, cloud_files, before, plan, cursor,
                   attempts, failures, raised>>
    /\ UNCHANGED queryVars
    /\ UNCHANGED classifyVars

\* delete_folder_contents: every direct or recursive child is listed
ListChildren ==
    /\ phase = "planning"
    /\ call.method = "delete_folder_contents"
    /\ LET paths == InOrder(DOMAIN cloud_files)
       IN  plan' = [i \in 1..Len(paths) |-> [path |-> paths[i], action |-> "Delete"]]
    /\ cursor' = 1
    /\ phase' = "executing"
    /\ UNCHANGED <<cloud_folder, runs, args, local_files, cloud_files, before, call,
                   attempts, failures, raised>>
    /\ UNCHANGED queryVars
    /\ UNCHANGED classifyVars

\* delete_folder_contents: the next child is deleted
DeleteSucceeds ==
    /\ phase = "executing"
    /\ cursor <= Len(plan)
    /\ plan[cursor].action = "Delete"
    /\ cloud_files' = [q \in DOMAIN cloud_files \ {plan[cursor].path} |-> cloud_files[q]]
    /\ attempts' = Append(attempts, [path |-> plan[cursor].path, ok |-> TRUE])
    /\ cursor' = cursor + 1
    /\ UNCHANGED <<cloud_folder, runs, args, local_files, before, phase, call, plan,
                   failures, raised>>
    /\ UNCHANGED queryVars
    /\ UNCHANGED classifyVars

\* delete_folder_contents: the deletion of the next child fails and changes
\* nothing; with skip_failures it is recorded and the run goes on, else it
\* is raised
DeleteFails ==
    /\ phase = "executing"
    /\ cursor <= Len(plan)
    /\ plan[cursor].action = "Delete"
    /\ LET p == plan[cursor].path
       IN  /\ attempts' = Append(attempts, [path |-> p, ok |-> FALSE])
           /\ IF Arg(call, "skip_failures", FALSE)
              THEN /\ failures' = Append(failures, [path |-> p, error |-> "TransferError"])
                   /\ cursor' = cursor + 1
                   /\ UNCHANGED <<phase, raised>>
              ELSE /\ raised' = [error |-> "TransferError", path |-> p]
                   /\ phase' = "failed"
                   /\ UNCHANGED <<failures, cursor>>
    /\ UNCHANGED <<cloud_folder, runs, args, local_files, cloud_files, before, call, plan>>
    /\ UNCHANGED queryVars
    /\ UNCHANGED classifyVars

\* delete_folder: the folder is deleted, and with it all it holds
DeleteFolder ==
    /\ phase = "planning"
    /\ call.method = "delete_folder"
    /\ cloud_folder' = FALSE
    /\ cloud_files' = << >>
    /\ phase' = "done"
    /\ UNCHANGED <<runs, args, local_files, before, call, plan, cursor, attempts,
                   failures, raised>>
    /\ UNCHANGED queryVars
    /\ UNCHANGED classifyVars

\* delete_folder: the call fails and changes nothing
DeleteFolderFails ==
    /\ phase = "planning"
    /\ call.method = "delete_folder"
    /\ raised' = [error |-> "TransferError", path |-> ""]
    /\ phase' = "failed"
    /\ UNCHANGED <<cloud_folder, runs, args, local_files, cloud_files, before, call,
                   plan, cursor, attempts, failures>>
    /\ UNCHANGED queryVars
    /\ UNCHANGED classifyVars

DeleteNext ==
    \/ RunDeleteCommand
    \/ ListChildren
    \/ DeleteSucceeds
    \/ DeleteFails
    \/ DeleteFolder
    \/ DeleteFolderFails
    \/ Finish

\* gdrive delete-dir, with or without --contents-only and --skip-failures,
\* of a remote folder that holds some of the paths
InitDelete ==
    /\ NoQuery
    /\ NoClassify
    /\ args \in [command : {"gdrive delete-dir"}, contents_only : BOOLEAN,
                 skip_failures : BOOLEAN]
    /\ local_files = << >>
    /\ cloud_files \in Directories("cloud")
    /\ cloud_folder = TRUE
    /\ before = [local |-> local_files, cloud |-> cloud_files]
    /\ phase = "idle"
    /\ call = NoCall
    /\ plan = << >>
    /\ cursor = 0
    /\ attempts = << >>
    /\ failures = << >>
    /\ raised = NoError
    /\ runs = 0

SpecDelete == InitDelete /\ [][DeleteNext]_vars

\* the paths whose deletion succeeded
Deleted == {attempts[i].path : i \in {j \in 1..Len(attempts) : attempts[j].ok}}

\* C25: delete-dir --contents-only calls delete_folder_contents with the
\* --skip-failures flag; the call lists every child, deletes children only
\* and never the folder; with skip_failures no failed deletion ends it and
\* every child is attempted once, the failed ones reported and left in
\* place; without it the first failure is raised and ends it.  Without
\* --contents-only the call is delete_folder, which is not given the
\* --skip-failures flag, and the folder is gone when it returns.
C25_DeleteDir ==
    /\ args.contents_only =>
          /\ cloud_folder
          /\ phase # "idle" =>
                call = [method |-> "delete_folder_contents",
                        skip_failures |-> args.skip_failures]
          /\ PlanningDone => Planned("Delete") = DOMAIN before.cloud /\
                             Len(plan) = Cardinality(DOMAIN before.cloud)
          /\ DOMAIN cloud_files = DOMAIN before.cloud \ Deleted
          /\ AttemptedPaths = SubSeq(InOrder(DOMAIN before.cloud), 1, Len(attempts))
          /\ args.skip_failures =>
                /\ raised.error # "TransferError"
                /\ failures = FailedEntries
                /\ phase = "done" =>
                      /\ Len(attempts) = Cardinality(DOMAIN before.cloud)
                      /\ DOMAIN cloud_files = {failures[i].path : i \in 1..Len(failures)}
          /\ ~args.skip_failures =>
                /\ failures = << >>
                /\ phase = "done" => cloud_files = << >>
                /\ \A i \in 1..Len(attempts) :
                       ~attempts[i].ok =>
                           /\ i = Len(attempts)
                           /\ phase = "failed"
                           /\ raised = [error |-> "TransferError",
                                        path |-> attempts[i].path]
    /\ ~args.contents_only =>
          /\ phase # "idle" => call = [method |-> "delete_folder"]
          /\ attempts = << >> /\ failures = << >>
          /\ phase = "done" => ~cloud_folder /\ cloud_files = << >>
          /\ phase # "done" => cloud_folder /\ cloud_files = before.cloud

\* gdrive delete-dir --contents-only --skip-failures of a folder with three
\* files and one in a subfolder: the deletion of b.txt failed, the others
\* were deleted, the folder and b.txt are still there
C25_Witness ==
    /\ phase = "done"
    /\ args.contents_only
    /\ args.skip_failures
    /\ DOMAIN before.cloud = {"a.txt", "b.txt", "c.txt", NestedFile}
    /\ attempts = <<[path |-> "a.txt", ok |-> TRUE], [path |-> "b.txt", ok |-> FALSE],
                    [path |-> "c.txt", ok |-> TRUE], [path |-> NestedFile, ok |-> TRUE]>>
    /\ failures = <<[path |-> "b.txt", error |-> "TransferError"]>>
    /\ DOMAIN cloud_files = {"b.txt"}
    /\ cloud_folder

\* ------------------------------------------------- claims on the : operator

\* C26: a clause field:value keeps the records whose rendered field value
\* has the value text as a substring, for a field of every kind and for a
\* value that reads as a byte size, as a datetime or as neither; the call
\* raises nothing.
C26_ColonIsSubstringOfRendered ==
    pc = "done" =>
        \A f \in DOMAIN FieldMap(field_map), v \in AllSearchValues :
            search_str = f \o ContainsDelimiter \o v =>
                /\ out = Kept(LAMBDA r :
                        IsSubstring(v, Rendered(FieldMap(field_map)[f].kind,
                                                FieldValue(field_map, f, r), tz)))
                /\ trace.message = NoMessage

\* size:10MB on a listing whose first record is of 10MB, rendered 10.0MB,
\* keeps nothing
C26_Witness ==
    /\ pc = "done"
    /\ search_str = K_size \o <<":", "1", "0", "M", "B">>
    /\ Len(records) = 2
    /\ records[1][K_size] = 10485760
    /\ RenderBytes(records[1][K_size]) = <<"1", "0", ".", "0", "M", "B">>
    /\ out = Returned(<< >>)

\* -------------------------------------------- comparisons of last modified

\* Hours are counted from 2019-12-31T00:00 on the wall clock of a zone: the
\* literal 24 is 2020-01-01 (no offset), 24Z is 2020-01-01T00:00Z, 23-5 is
\* 2019-12-31T23:00-05:00 and 25+1 is 2020-01-01T01:00+01:00.
DatetimeLiterals == {<<"2", "4">>, <<"2", "4", "Z">>, <<"2", "3", "-", "5">>,
                     <<"2", "5", "+", "1">>}

\* a comparison of last modified against a listing of records stamped
\* 2019-12-31T23:00-05:00, 2020-01-01T00:00Z and 2020-01-01T00:00+01:00,
\* by a process in the zone UTC-5, UTC or UTC+1
InitDatetime ==
    /\ pc = "call"
    /\ field_map \in {"s3", "gdrive"}
    /\ LET stamps == {[utc |-> 28, off |-> 0 - 5], [utc |-> 24, off |-> 0],
                      [utc |-> 23, off |-> 1]}
           pool == IF field_map = "s3"
                   THEN {S3Record(<<"b", "k">>, <<"a">>, 5, <<"t", "x">>, t, <<"z">>) :
                            t \in stamps}
                   ELSE {GoogleDriveRecord(<<"x">>, <<"a">>, 5, <<"t", "x">>, t, <<"z">>) :
                            t \in stamps}
       IN  records \in ListingsUpTo(pool, MaxRecs)
    /\ search_str \in {<<"l", "a", "s", "t", " ", "m", "o", "d", "i", "f", "i", "e", "d">>
                          \o d \o v : d \in ComparisonDelimiters, v \in DatetimeLiterals}
    /\ sort_by = << >>
    /\ ascending = TRUE
    /\ limit = 0 - 1
    /\ tz \in LocalZones \cup {0}
    /\ out = NoOut
    /\ parsed = << >>
    /\ trace = NoTrace
    /\ NoSync
    /\ NoClassify

SpecDatetime == InitDatetime /\ [][Next]_vars

\* the instant a literal names, in hours UTC, for a process in the zone
LiteralInstant(v, zone) ==
    CASE v = <<"2", "4">> -> 24 - zone
      [] v = <<"2", "4", "Z">> -> 24
      [] v = <<"2", "3", "-", "5">> -> 23 + 5
      [] v = <<"2", "5", "+", "1">> -> 25 - 1

\* the instant of a record's stamp: its wall clock less its offset
StampInstant(r) == (r[K_last_modified].utc + r[K_last_modified].off) - r[K_last_modified].off

\* "x d y" on two instants
InstantsRelated(d, x, y) ==
    CASE d = <<"<">> -> x < y
      [] d = <<"<", "=">> -> x <= y
      [] d = <<">">> -> x > y
      [] d = <<">", "=">> -> x >= y
      [] d = <<"=", "=">> -> x = y

\* C27: a comparison of last modified keeps the records whose instant is in
\* the relation to the literal's instant, where a literal with Z or an
\* offset names that instant and one without names the local wall-clock
\* time; last modified<2020-01-01 keeps a record stamped
\* 2019-12-31T23:00:00-05:00 exactly when local midnight of 2020-01-01 is
\* later than that instant.
C27_DatetimeOnOneTimeLine ==
    pc = "done" =>
        /\ \A d \in ComparisonDelimiters, v \in DatetimeLiterals :
               search_str = <<"l", "a", "s", "t", " ", "m", "o", "d", "i", "f", "i", "e",
                              "d">> \o d \o v =>
                   out = Kept(LAMBDA r :
                           InstantsRelated(d, StampInstant(r), LiteralInstant(v, tz)))
        /\ search_str = <<"l", "a", "s", "t", " ", "m", "o", "d", "i", "f", "i", "e", "d",
                          "<", "2", "4">> =>
               \A i \in 1..Len(records) :
                   records[i][K_last_modified] = [utc |-> 28, off |-> 0 - 5] =>
                       ((\E j \in 1..Len(out.records) : out.records[j] = records[i])
                           <=> 24 - tz > 28)

\* in the zone UTC-5, last modified<2020-01-01 on the three records keeps
\* the one stamped 2019-12-31T23:00-05:00 (04:00Z, before local midnight,
\* 05:00Z) along with the two earlier ones
C27_Witness ==
    /\ pc = "done"
    /\ tz = 0 - 5
    /\ search_str = <<"l", "a", "s", "t", " ", "m", "o", "d", "i", "f", "i", "e", "d",
                      "<", "2", "4">>
    /\ Len(records) = 3
    /\ records[1][K_last_modified] = [utc |-> 28, off |-> 0 - 5]
    /\ records[2][K_last_modified] = [utc |-> 24, off |-> 0]
    /\ records[3][K_last_modified] = [utc |-> 23, off |-> 1]
    /\ out = Returned(records)

\* ================================================ apply_classifier_to_objects

\* most attributes predicted for an object
MaxAttrs == 3
\* confidences and thresholds are counted in steps, from 0 to MaxConfidence
MaxConfidence == 3

\* None, for a confidence or a threshold that is not set
None == 0 - 1

\* _build_attribute_filter(threshold), applied to the predicted attributes
BuildAttributeFilter(threshold, predicted) ==
    IF threshold = None THEN predicted
    ELSE SelectSeq(predicted,
                   LAMBDA attr : attr.confidence = None \/ attr.confidence > threshold)

\* _classify_image: the attributes predicted for the object are filtered
ClassifyImage ==
    /\ ~filtered.done
    /\ filtered' = [done |-> TRUE,
                    attrs |-> BuildAttributeFilter(confidence_threshold, attrs)]
    /\ UNCHANGED <<confidence_threshold, attrs>>
    /\ UNCHANGED queryVars
    /\ UNCHANGED syncVars

\* the module run with or without confidence_threshold on an object for
\* which the classifier predicts some attributes, with or without confidence
InitClassify ==
    /\ NoQuery
    /\ NoSync
    /\ confidence_threshold \in {None} \cup 0..MaxConfidence
    /\ attrs \in ListingsUpTo({[confidence |-> c] : c \in {None} \cup 0..MaxConfidence},
                              MaxAttrs)
    /\ filtered = [done |-> FALSE, attrs |-> << >>]

SpecClassify == InitClassify /\ [][ClassifyImage]_vars

\* C28: with a threshold the attributes kept are those predicted with a
\* confidence greater than or equal to it or with no confidence, in the
\* order predicted; with no threshold all are kept.
C28_KeptIffAtLeastThreshold ==
    filtered.done =>
        filtered.attrs =
            IF confidence_threshold = None THEN attrs
            ELSE SelectSeq(attrs, LAMBDA attr : attr.confidence = None
                                                  \/ attr.confidence >= confidence_threshold)

\* ------------------------------------------------ claims on the call's frame

\* C29: the call leaves its input as it was (same length, order and
\* contents), and what it returns holds records of the input only, each at
\* most as many times as the input holds it, for every search, sort_by,
\* ascending and limit.
C29_OnlySelectsAndReorders ==
    [][pc = "call" /\ pc' = "done" =>
          /\ records' = records
          /\ \A i \in 1..Len(out'.records) :
                 /\ Count(out'.records, out'.records[i]) <= Count(records, out'.records[i])
                 /\ Count(records, out'.records[i]) >= 1]_vars

\* a listing of a 10MB record twice and a 25MB record, sorted by size from
\* the largest and limited to two: the 25MB record and one 10MB record are
\* returned, and the listing is as it was
C29_Witness ==
    /\ pc = "done"
    /\ search_str = << >>
    /\ sort_by = K_size
    /\ ~ascending
    /\ limit = 2
    /\ Len(records) = 3
    /\ records[1] = records[2]
    /\ records[1][K_size] = 10485760
    /\ records[3][K_size] = 26214400
    /\ out = Returned(<<records[3], records[1]>>)

\* ------------------------------------------------------------ empty clauses

\* every short query over a, b, the backslash, the comma and the colon,
\* against no record, one record or four: the three S3 records, one whose
\* name holds a comma, and (alone) one with no key a searcher reads
InitCommas ==
    /\ pc = "call"
    /\ field_map = "s3"
    /\ LET named == S3Record(<<"b", "k">>, <<"b", "a", ",">>, 5, <<"t", "x">>,
                             [utc |-> 10, off |-> 0], <<"z">>)
           bare == (K_etag :> <<"a", "b">>)
           three == CHOOSE l \in ListingsUpTo(S3Pool, 3) :
                        {l[i] : i \in 1..Len(l)} = S3Pool
       IN  records \in {<< >>, <<bare>>, <<named>>, Append(three, named)}
                          \cup {<<r>> : r \in S3Pool}
    /\ search_str \in StringsUpTo({"a", "b", BSL, ",", ":"}, MaxLen)
    /\ sort_by = << >>
    /\ ascending = TRUE
    /\ limit = 0 - 1
    /\ tz = 1
    /\ out = NoOut
    /\ parsed = << >>
    /\ trace = NoTrace
    /\ NoSync
    /\ NoClassify

SpecCommas == InitCommas /\ [][Next]_vars

\* what the call returns for the search string s on the listing
ResultOf(s) == FilterRecords(records, limit, s, sort_by, ascending, field_map, tz)

\* the clauses the parser splits s into
CommaChunks(s) == SplitOnChars(s, ClauseSep, 0, FALSE)

\* s with one more comma right after position i
CommaAddedAfter(s, i) == SubSeq(s, 1, i) \o <<",">> \o SubSeq(s, i + 1, Len(s))

\* every record of the listing has a key that a searcher of the registry reads
AllHaveRegisteredField ==
    \A i \in 1..Len(records) :
        \E name \in DOMAIN records[i] : name \in DOMAIN SearcherMap(FieldMap(field_map))

\* C30 as stated: a leading comma, a trailing comma or a further comma next
\* to an unescaped comma never changes what the query returns on records
\* that have a registered field.
C30_AddedCommasChangeNothing ==
    pc = "done" /\ AllHaveRegisteredField =>
        /\ out = ResultOf(<<",">> \o search_str)
        /\ out = ResultOf(search_str \o <<",">>)
        /\ \A i \in 1..Len(search_str) :
               search_str[i] = "," /\ Unescaped(search_str, i) =>
                   out = ResultOf(CommaAddedAfter(search_str, i))

\* C30, amended: a further comma next to an unescaped comma leaves the
\* clauses as they were; the empty clause of a leading or trailing comma is
\* the any-field predicate with the empty literal, which keeps every record
\* that has a registered field; and a leading comma, a trailing comma after
\* a query that does not end in a backslash, or a further comma next to an
\* unescaped comma never changes what the query returns on such records.
C30_AddedSeparatorsChangeNothing ==
    pc = "done" =>
        /\ \A i \in 1..Len(search_str) :
               search_str[i] = "," /\ Unescaped(search_str, i) =>
                   CommaChunks(CommaAddedAfter(search_str, i)) = CommaChunks(search_str)
        /\ CommaChunks(<<",">> \o search_str)[1] = << >>
        /\ ParseClause(<< >>, FieldMap(field_map)) =
               MatchFcn("any", NoSearcher, << >>, "None", "None")
        /\ AllHaveRegisteredField =>
              /\ ResultOf(<<",">>) = Returned(records)
              /\ out = ResultOf(<<",">> \o search_str)
              /\ search_str = << >> \/ search_str[Len(search_str)] # BSL =>
                    out = ResultOf(search_str \o <<",">>)
              /\ \A i \in 1..Len(search_str) :
                     search_str[i] = "," /\ Unescaped(search_str, i) =>
                         out = ResultOf(CommaAddedAfter(search_str, i))

\* a,,b on the record named ab: two clauses, as a,b, and the record is kept,
\* as it is by ,a,,b and by a,,b,
C30_Witness ==
    /\ pc = "done"
    /\ search_str = <<"a", ",", ",", "b">>
    /\ Len(parsed) = 2
    /\ Len(records) = 1
    /\ K_object_name \in DOMAIN records[1]
    /\ records[1][K_object_name] = <<"a", "b">>
    /\ out = Returned(records)
    /\ ResultOf(<<",", "a", ",", ",", "b">>) = out
    /\ ResultOf(<<"a", ",", ",", "b", ",">>) = out

====
